---------------------------- MODULE Spec2Model ----------------------------
(***************************************************************************)
(* A model of CitationManager                                              *)
(* (src/src/agents/research/utils/citation_manager.py): the citation       *)
(* table, the PLAN-/CIT- id counters, the persisted citations.json         *)
(* document and the asyncio lock around the *_async entry points.          *)
(*                                                                         *)
(* Python strings are TLA+ strings; they are taken apart with Len, SubSeq  *)
(* and \o, so that parsing and formatting are computed as the code         *)
(* computes them.                                                          *)
(***************************************************************************)
EXTENDS Integers, Sequences, FiniteSets, TLC

(***************************************************************************)
(* Python string and integer primitives used by the code.                  *)
(***************************************************************************)

DigitChars == <<"0", "1", "2", "3", "4", "5", "6", "7", "8", "9">>

IsDigit(c) == \E i \in 1..10 : DigitChars[i] = c

DigitVal(c) == (CHOOSE i \in 1..10 : DigitChars[i] = c) - 1

CharAt(s, i) == SubSeq(s, i, i)

\* str(n) for a natural number
RECURSIVE NatToStr(_)
NatToStr(n) ==
    IF n < 10 THEN DigitChars[n + 1]
    ELSE NatToStr(n \div 10) \o DigitChars[(n % 10) + 1]

\* str(n) / f"{n}"
IntToStr(n) == IF n < 0 THEN "-" \o NatToStr(0 - n) ELSE NatToStr(n)

\* f"{n:02d}": zero-padded to a width of two, the sign counted in the width
Fmt02d(n) == IF n >= 0 /\ n < 10 THEN "0" \o NatToStr(n) ELSE IntToStr(n)

\* s.startswith(p)
StartsWith(s, p) == Len(s) >= Len(p) /\ SubSeq(s, 1, Len(p)) = p

\* s.replace(old, ""): every non-overlapping occurrence, left to right
RECURSIVE RemoveAll(_, _)
RemoveAll(s, old) ==
    IF Len(s) = 0 THEN ""
    ELSE IF StartsWith(s, old) THEN RemoveAll(SubSeq(s, Len(old) + 1, Len(s)), old)
    ELSE CharAt(s, 1) \o RemoveAll(SubSeq(s, 2, Len(s)), old)

\* sep in s, for a one-character sep
Contains(s, sep) == \E i \in 1..Len(s) : CharAt(s, i) = sep

\* s.split(sep) for a one-character sep: a list of at least one piece
RECURSIVE Split(_, _)
Split(s, sep) ==
    IF ~Contains(s, sep) THEN <<s>>
    ELSE LET i == CHOOSE k \in 1..Len(s) :
                      /\ CharAt(s, k) = sep
                      /\ \A j \in 1..(k - 1) : CharAt(s, j) # sep
         IN  <<SubSeq(s, 1, i - 1)>> \o Split(SubSeq(s, i + 1, Len(s)), sep)

\* s.strip() over the blank the model's strings may hold
RECURSIVE Strip(_)
Strip(s) ==
    IF Len(s) > 0 /\ CharAt(s, 1) = " " THEN Strip(SubSeq(s, 2, Len(s)))
    ELSE IF Len(s) > 0 /\ CharAt(s, Len(s)) = " " THEN Strip(SubSeq(s, 1, Len(s) - 1))
    ELSE s

\* the digits of an int() literal: digits, single underscores between them
IsDigitRun(s) ==
    /\ Len(s) > 0
    /\ IsDigit(CharAt(s, 1))
    /\ IsDigit(CharAt(s, Len(s)))
    /\ \A i \in 1..Len(s) :
          \/ IsDigit(CharAt(s, i))
          \/ CharAt(s, i) = "_" /\ i > 1 /\ IsDigit(CharAt(s, i - 1))

Unsigned(s) ==
    IF Len(s) > 0 /\ CharAt(s, 1) \in {"+", "-"} THEN SubSeq(s, 2, Len(s)) ELSE s

\* int(s) does not raise ValueError
IsIntLiteral(s) == IsDigitRun(Unsigned(Strip(s)))

RECURSIVE DigitRunVal(_, _)
DigitRunVal(s, acc) ==
    IF Len(s) = 0 THEN acc
    ELSE IF CharAt(s, 1) = "_" THEN DigitRunVal(SubSeq(s, 2, Len(s)), acc)
    ELSE DigitRunVal(SubSeq(s, 2, Len(s)), 10 * acc + DigitVal(CharAt(s, 1)))

\* int(s), where IsIntLiteral(s)
PyInt(s) ==
    LET t == Strip(s)
        v == DigitRunVal(Unsigned(t), 0)
    IN  IF Len(t) > 0 /\ CharAt(t, 1) = "-" THEN 0 - v ELSE v

\* s.lower() over the letters the model's strings may hold
UpperChars == "ABCDEFGHIJKLMNOPQRSTUVWXYZ"
LowerChars == "abcdefghijklmnopqrstuvwxyz"

LowerChar(c) ==
    CASE c = "A" -> "a" [] c = "B" -> "b" [] c = "C" -> "c" [] c = "D" -> "d"
      [] c = "E" -> "e" [] c = "F" -> "f" [] c = "G" -> "g" [] c = "H" -> "h"
      [] c = "I" -> "i" [] c = "J" -> "j" [] c = "K" -> "k" [] c = "L" -> "l"
      [] c = "M" -> "m" [] c = "N" -> "n" [] c = "O" -> "o" [] c = "P" -> "p"
      [] c = "Q" -> "q" [] c = "R" -> "r" [] c = "S" -> "s" [] c = "T" -> "t"
      [] c = "U" -> "u" [] c = "V" -> "v" [] c = "W" -> "w" [] c = "X" -> "x"
      [] c = "Y" -> "y" [] c = "Z" -> "z"
      [] OTHER -> c

RECURSIVE Lower(_)
Lower(s) == IF Len(s) = 0 THEN "" ELSE LowerChar(CharAt(s, 1)) \o Lower(SubSeq(s, 2, Len(s)))

\* s[:n]
Trunc(s, n) == IF Len(s) <= n THEN s ELSE SubSeq(s, 1, n)

\* d.get(k, default), d a dict
Get(d, k, default) == IF k \in DOMAIN d THEN d[k] ELSE default

Max(S) == CHOOSE m \in S : \A n \in S : n <= m
Min(S) == CHOOSE m \in S : \A n \in S : m <= n

\* d[k] = v on a dict d
Put(d, k, v) == [j \in DOMAIN d \cup {k} |-> IF j = k THEN v ELSE d[j]]

(***************************************************************************)
(* The object's state.                                                     *)
(***************************************************************************)
VARIABLES
    citations,       \* self._citations: citation id -> record
    cit_order,       \* the insertion order of the keys of self._citations
    plan_counter,    \* self._plan_counter
    block_counters,  \* self._block_counters: str(block number) -> counter
    ref_number_map,  \* self._ref_number_map
    attr_type,       \* the Python types of the attributes a load assigns
    disk,            \* the file citations.json
    issued,          \* the ids the generators of this object have returned
    last,            \* the call that completed last, and what it returned
    pc,              \* where each task stands in its *_async coroutine
    running,         \* the task the event loop is running, or NoTask
    locked,          \* self._lock: whether it is held
    waiters,         \* self._lock: the tasks queued in acquire()
    call,            \* the coroutine each task was created for
    ret              \* what each task's coroutine returned

store == <<citations, cit_order, plan_counter, block_counters, ref_number_map, attr_type>>
tasks == <<pc, running, locked, waiters, call, ret>>
vars == <<citations, cit_order, plan_counter, block_counters, ref_number_map, attr_type,
          disk, issued, last, pc, running, locked, waiters, call, ret>>

EmptyDict == <<>>

NormalTypes == [citations |-> "dict", plan_counter |-> "int", block_counters |-> "dict"]

(***************************************************************************)
(* Identifier generation.                                                  *)
(***************************************************************************)

\* f"PLAN-{n:02d}"
PlanId(n) == "PLAN-" \o Fmt02d(n)

\* f"CIT-{block_num}-{n:02d}"
ResearchId(block_num, n) == "CIT-" \o IntToStr(block_num) \o "-" \o Fmt02d(n)

\* the block number generate_research_citation_id takes from block_id
BlockNum(block_id) ==
    IF block_id # "" /\ Contains(block_id, "_")
    THEN LET piece == Split(block_id, "_")[2]
         IN  IF IsIntLiteral(piece) THEN PyInt(piece) ELSE 0
    ELSE 0

BlockKey(block_id) == IntToStr(BlockNum(block_id))

\* (mutation) the increment of line 58 forgotten
NextPlanCounterNoIncrement == plan_counter

\* (mutation) line 58 as "self._plan_counter -= 1"
NextPlanCounterDecrement == plan_counter - 1

\* the counter generate_plan_citation_id leaves, and the id it returns
NextPlanCounter == plan_counter + 1
NextPlanId == PlanId(NextPlanCounter)

\* (mutation) the block counter read but not incremented
NextBlockCounterNoIncrement(block_id) == Get(block_counters, BlockKey(block_id), 0)

\* the counter generate_research_citation_id leaves for the block, and its id
NextBlockCounter(block_id) == Get(block_counters, BlockKey(block_id), 0) + 1
NextResearchId(block_id) == ResearchId(BlockNum(block_id), NextBlockCounter(block_id))

generate_plan_citation_id ==
    /\ plan_counter' = NextPlanCounter
    /\ UNCHANGED <<citations, cit_order, block_counters, ref_number_map, attr_type, disk>>

generate_research_citation_id(block_id) ==
    /\ block_counters' = Put(block_counters, BlockKey(block_id), NextBlockCounter(block_id))
    /\ UNCHANGED <<citations, cit_order, plan_counter, ref_number_map, attr_type, disk>>

\* what get_next_citation_id(stage, block_id) returns
NextCitationId(stage, block_id) ==
    IF stage = "planning" THEN NextPlanId ELSE NextResearchId(block_id)

get_next_citation_id(stage, block_id) ==
    IF stage = "planning" THEN generate_plan_citation_id
    ELSE generate_research_citation_id(block_id)

(***************************************************************************)
(* Extraction.  A raw answer is the text handed to json.loads: t = "text"  *)
(* is text that is not JSON, "list" a JSON array, "dict" a JSON object     *)
(* with the fields f.  A field holding an array is [t |-> "list", items],  *)
(* an item of it [t |-> "dict", f] or [t |-> "str", s].  A tool trace has  *)
(* the attributes query, summary and timestamp, or lacks them (attrs).     *)
(***************************************************************************)

\* {**r, **s}
Merge(r, s) == [k \in DOMAIN r \cup DOMAIN s |-> IF k \in DOMAIN s THEN s[k] ELSE r[k]]

\* seq[:5]
First5(seq) == IF Len(seq) <= 5 THEN seq ELSE SubSeq(seq, 1, 5)

\* sep.join(seq)
RECURSIVE Join(_, _)
Join(seq, sep) ==
    IF Len(seq) = 0 THEN ""
    ELSE IF Len(seq) = 1 THEN seq[1]
    ELSE seq[1] \o sep \o Join(Tail(seq), sep)

\* the first of the names that is a key of the dict d, or "" when none is
FirstField(d, names) ==
    LET hits == {i \in 1..Len(names) : names[i] \in DOMAIN d}
    IN  IF hits = {} THEN "" ELSE names[Min(hits)]

\* the fields every extractor reads from the tool trace
CommonFields(citation_id, tool_type, tool_trace) ==
    [citation_id |-> citation_id, tool_type |-> tool_type, query |-> tool_trace.query,
     summary |-> tool_trace.summary, timestamp |-> tool_trace.timestamp]

RagFieldNames == <<"chunks", "documents", "sources", "context", "retrieved_docs">>

RagSource(doc, i) ==
    IF doc.t = "dict"
    THEN [title |-> Get(doc.f, "title", Get(doc.f, "doc_title", "")),
          content_preview |-> Trunc(Get(doc.f, "content", Get(doc.f, "text", "")), 200),
          source_file |-> Get(doc.f, "source", Get(doc.f, "file_path", Get(doc.f, "filename", ""))),
          page |-> Get(doc.f, "page", Get(doc.f, "page_number", "")),
          chunk_id |-> Get(doc.f, "chunk_id", Get(doc.f, "id", i)),
          score |-> Get(doc.f, "score", Get(doc.f, "similarity", ""))]
    ELSE [content_preview |-> Trunc(doc.s, 200)]

_extract_rag_citation(citation_id, tool_type, raw_answer, tool_trace) ==
    LET citation_info == Merge(CommonFields(citation_id, tool_type, tool_trace),
                               [sources |-> <<>>])
    IN  IF raw_answer.t # "dict" THEN citation_info
        ELSE LET answer_data == raw_answer.f
                 field_name == FirstField(answer_data, RagFieldNames)
                 source_list == IF field_name # "" /\ answer_data[field_name].t = "list"
                                THEN First5(answer_data[field_name].items) ELSE <<>>
                 sources == [i \in 1..Len(source_list) |-> RagSource(source_list[i], i - 1)]
             IN  Merge(citation_info,
                       [kb_name |-> Get(answer_data, "kb_name", ""),
                        sources |-> sources, total_sources |-> Len(sources)])

WebFieldNames == <<"results", "web_results", "search_results", "urls">>

WebSource(result) ==
    [title |-> Get(result, "title", ""),
     url |-> Get(result, "url", Get(result, "link", "")),
     snippet |-> Trunc(Get(result, "snippet", Get(result, "description", "")), 200),
     domain |-> Get(result, "domain", "")]

_extract_web_citation(citation_id, tool_type, raw_answer, tool_trace) ==
    LET citation_info == Merge(CommonFields(citation_id, tool_type, tool_trace),
                               [web_sources |-> <<>>])
    IN  IF raw_answer.t = "text" THEN citation_info
        ELSE LET field_name == IF raw_answer.t = "dict"
                               THEN FirstField(raw_answer.f, WebFieldNames) ELSE ""
                 result_list == IF field_name # "" /\ raw_answer.f[field_name].t = "list"
                                THEN First5(raw_answer.f[field_name].items) ELSE <<>>
                 dicts == SelectSeq(result_list, LAMBDA r : r.t = "dict")
                 found == [i \in 1..Len(dicts) |-> WebSource(dicts[i].f)]
                 web_sources == SelectSeq(found, LAMBDA w : w.url # "")
             IN  Merge(citation_info,
                       [web_sources |-> web_sources, total_sources |-> Len(web_sources)])

PaperInfo(paper) ==
    LET authors == Get(paper, "authors", <<>>)
        author_str == Join(IF Len(authors) <= 3 THEN authors ELSE SubSeq(authors, 1, 3), ", ")
                      \o (IF Len(authors) > 3 THEN " et al." ELSE "")
    IN  [title |-> Get(paper, "title", ""),
         authors |-> author_str,
         authors_list |-> authors,
         year |-> Get(paper, "year", ""),
         url |-> Get(paper, "url", ""),
         arxiv_id |-> Get(paper, "arxiv_id", ""),
         abstract |-> Trunc(Get(paper, "abstract", ""), 300),
         doi |-> Get(paper, "doi", ""),
         venue |-> Get(paper, "venue", Get(paper, "journal", ""))]

_extract_paper_citation(citation_id, tool_type, raw_answer, tool_trace) ==
    LET citation_info == Merge(CommonFields(citation_id, tool_type, tool_trace),
                               [papers |-> <<>>])
        papers == IF raw_answer.t = "dict" /\ "papers" \in DOMAIN raw_answer.f
                     /\ raw_answer.f["papers"].t = "list"
                  THEN First5(raw_answer.f["papers"].items) ELSE <<>>
    IN  IF papers = <<>> \/ \E i \in 1..Len(papers) : papers[i].t # "dict" THEN citation_info
        ELSE LET processed_papers == [i \in 1..Len(papers) |-> PaperInfo(papers[i].f)]
                 primary == processed_papers[1]
             IN  Merge(citation_info,
                       [papers |-> processed_papers,
                        total_papers |-> Len(processed_papers),
                        title |-> primary.title,
                        authors |-> primary.authors,
                        authors_list |-> primary.authors_list,
                        year |-> primary.year,
                        url |-> primary.url,
                        arxiv_id |-> primary.arxiv_id])

_extract_code_citation(citation_id, tool_type, tool_trace) ==
    CommonFields(citation_id, tool_type, tool_trace)

_extract_generic_citation(citation_id, tool_type, tool_trace) ==
    CommonFields(citation_id, tool_type, tool_trace)

\* (mutation) the extractors without their try/except around json.loads
ExtractionRaisesOnBadJson(tool_trace, raw_answer) ==
    ~tool_trace.attrs \/ raw_answer.t = "text"

\* whether an exception leaves the extractor: reading an attribute the trace
\* lacks raises; what json.loads and the walk over its result raise is
\* caught inside the extractor
ExtractionRaises(tool_trace, raw_answer) == ~tool_trace.attrs

\* the record add_citation builds

ExtractCitation(citation_id, tool_type, tool_trace, raw_answer) ==
    LET tool_type_lower == Lower(tool_type)
    IN  IF tool_type_lower \in {"rag_naive", "rag_hybrid", "query_item"}
        THEN _extract_rag_citation(citation_id, tool_type, raw_answer, tool_trace)
        ELSE IF tool_type_lower = "web_search"
        THEN _extract_web_citation(citation_id, tool_type, raw_answer, tool_trace)
        ELSE IF tool_type_lower = "paper_search"
        THEN _extract_paper_citation(citation_id, tool_type, raw_answer, tool_trace)
        ELSE IF tool_type_lower = "run_code"
        THEN _extract_code_citation(citation_id, tool_type, tool_trace)
        ELSE _extract_generic_citation(citation_id, tool_type, tool_trace)

(***************************************************************************)
(* Persistence.  The file citations.json is absent, holds text json.load   *)
(* rejects ("unparseable"), holds a JSON value that is not an object       *)
(* ("nonobject"), or holds an object: its "citations" and "counters" are   *)
(* missing, or a JSON value tagged with its type.                          *)
(***************************************************************************)

Absent == [kind |-> "absent"]
Unparseable == [kind |-> "unparseable"]
NonObject == [kind |-> "nonobject"]
Missing == [t |-> "missing"]

ResearchName == "research_1"

\* (mutation) the document written without its counters section
DocumentWithoutCounters(table, order, plan, blocks) ==
    [kind |-> "object", research_id |-> "research_1",
     citations |-> [t |-> "dict", v |-> table, order |-> order],
     counters |-> [t |-> "missing"]]

\* the document _save_citations hands to json.dump (updated_at, which no
\* code reads back, is left out)
Document(table, order, plan, blocks) ==
    [kind |-> "object",
     research_id |-> ResearchName,
     citations |-> [t |-> "dict", v |-> table, order |-> order],
     counters |-> [t |-> "dict",
                   f |-> [plan_counter |-> [t |-> "int", v |-> plan],
                          block_counters |-> [t |-> "dict", v |-> blocks]]]]

\* json.dump raises TypeError on a value that is not JSON-serialisable
Unserialisable == "<object>"
Serialisable(table) == \A id \in DOMAIN table : table[id].query # Unserialisable

\* the file after _save_citations: open() fails and leaves it as it was, or
\* truncates it; json.dump then writes the document, or raises part-way
\* through and leaves text that is not JSON.  Every exception is swallowed.
SavedFile(io, table, order, plan, blocks) ==
    IF io = "oserror" THEN disk
    ELSE IF ~Serialisable(table) THEN Unparseable
    ELSE Document(table, order, plan, blocks)

\* a save that writes the table as it was before the call
SaveBeforeStore(io) ==
    disk' = SavedFile(io, citations, cit_order, plan_counter', block_counters')

_save_citations(io) ==
    disk' = SavedFile(io, citations', cit_order', plan_counter', block_counters')

\* bool(x) of a JSON value
Truthy(j) ==
    \/ j.t = "dict" /\ DOMAIN j.f # {}
    \/ j.t = "str" /\ j.s # ""
    \/ j.t = "list" /\ j.items # <<>>

\* (mutation) the counter restored as the number of PLAN- ids
RestoredPlanCounterByCount(ids) ==
    Cardinality({i \in ids : StartsWith(i, "PLAN-") /\ IsIntLiteral(RemoveAll(i, "PLAN-"))})

\* _restore_counters_from_citations: plan_counter
RestoredPlanCounter(ids) ==
    LET nums == {PyInt(RemoveAll(id, "PLAN-")) :
                    id \in {i \in ids : /\ StartsWith(i, "PLAN-")
                                        /\ IsIntLiteral(RemoveAll(i, "PLAN-"))}}
    IN  Max(nums \cup {0})

\* the parts of a CIT- id that _restore_counters_from_citations reads
CitParts(id) == Split(RemoveAll(id, "CIT-"), "-")

CountsForBlock(id) ==
    /\ ~StartsWith(id, "PLAN-")
    /\ StartsWith(id, "CIT-")
    /\ Len(CitParts(id)) = 2
    /\ IsIntLiteral(CitParts(id)[2])

\* _restore_counters_from_citations: block_counters
RestoredBlockCounters(ids) ==
    LET counted == {i \in ids : CountsForBlock(i)}
        keys == {CitParts(i)[1] : i \in counted}
    IN  [b \in keys |->
            Max({PyInt(CitParts(i)[2]) : i \in {j \in counted : CitParts(j)[1] = b}} \cup {0})]

\* the attributes __init__ assigns before it calls _load_citations
NewObject ==
    [types |-> NormalTypes, citations |-> EmptyDict, order |-> <<>>,
     plan_counter |-> 0, block_counters |-> EmptyDict]

\* the attributes after the except clause of _load_citations
LoadFailed == NewObject

\* the attributes after _load_citations over the file d.  An attribute that
\* was assigned a value of another type than the code expects keeps its
\* initial value here and has that type recorded in types.
_load_citations(d) ==
    IF d.kind = "absent" THEN NewObject
    ELSE IF d.kind \in {"unparseable", "nonobject"} THEN LoadFailed
    ELSE LET c == d.citations
             k == d.counters
             table == IF c.t = "dict" THEN c.v ELSE EmptyDict
             order == IF c.t = "dict" THEN c.order ELSE <<>>
             ctype == IF c.t = "missing" THEN "dict" ELSE c.t
         IN  IF Truthy(k)
             THEN IF k.t # "dict" THEN LoadFailed
                  ELSE LET p == Get(k.f, "plan_counter", [t |-> "int", v |-> 0])
                           b == Get(k.f, "block_counters", [t |-> "dict", v |-> EmptyDict])
                       IN  [types |-> [citations |-> ctype, plan_counter |-> p.t,
                                       block_counters |-> b.t],
                            citations |-> table, order |-> order,
                            plan_counter |-> IF p.t = "int" THEN p.v ELSE 0,
                            block_counters |-> IF b.t = "dict" THEN b.v ELSE EmptyDict]
             ELSE IF ctype # "dict" THEN LoadFailed
                  ELSE [types |-> NormalTypes, citations |-> table, order |-> order,
                        plan_counter |-> RestoredPlanCounter(DOMAIN table),
                        block_counters |-> RestoredBlockCounters(DOMAIN table)]

\* CitationManager(research_id, cache_dir) over the file as it is
Construct ==
    LET o == _load_citations(disk)
    IN  /\ citations' = o.citations
        /\ cit_order' = o.order
        /\ plan_counter' = o.plan_counter
        /\ block_counters' = o.block_counters
        /\ attr_type' = o.types
        /\ ref_number_map' = EmptyDict
        /\ UNCHANGED disk

(***************************************************************************)
(* add_citation.                                                           *)
(***************************************************************************)

\* the key order of the dict after self._citations[citation_id] = ...
OrderAfterPut(citation_id) ==
    IF citation_id \in DOMAIN citations THEN cit_order ELSE Append(cit_order, citation_id)

\* what add_citation returns
AddCitationResult(citation_id, tool_type, tool_trace, raw_answer) ==
    ~ExtractionRaises(tool_trace, raw_answer)

\* an add_citation that starts a new table with the record it stores
AddCitationIntoNewTable(citation_id, tool_type, tool_trace, raw_answer, io) ==
    IF ExtractionRaises(tool_trace, raw_answer)
    THEN UNCHANGED <<citations, cit_order, plan_counter, block_counters, ref_number_map,
                     attr_type, disk>>
    ELSE /\ citations' = Put(EmptyDict, citation_id,
                             ExtractCitation(citation_id, tool_type, tool_trace, raw_answer))
         /\ cit_order' = <<citation_id>>
         /\ UNCHANGED <<plan_counter, block_counters, ref_number_map, attr_type>>
         /\ _save_citations(io)

add_citation(citation_id, tool_type, tool_trace, raw_answer, io) ==
    IF ExtractionRaises(tool_trace, raw_answer)
    THEN UNCHANGED <<citations, cit_order, plan_counter, block_counters, ref_number_map,
                     attr_type, disk>>
    ELSE /\ citations' = Put(citations, citation_id,
                             ExtractCitation(citation_id, tool_type, tool_trace, raw_answer))
         /\ cit_order' = OrderAfterPut(citation_id)
         /\ UNCHANGED <<plan_counter, block_counters, ref_number_map, attr_type>>
         /\ _save_citations(io)

(***************************************************************************)
(* Reference numbers.                                                      *)
(***************************************************************************)

\* paper=None
NoPaper == <<>>

\* the key of a titled paper, or the key unique to the citation id
PaperOrUniqueKey(d, citation_id) ==
    LET title == Strip(Lower(Get(d, "title", "")))
        authors == Strip(Lower(Get(d, "authors", "")))
        first_author == IF authors # "" THEN Strip(Split(authors, ",")[1]) ELSE ""
    IN  IF title # "" THEN "paper:" \o title \o "|" \o first_author
        ELSE "unique:" \o citation_id

\* (mutation) records other than paper_search keyed by their query
DedupKeyByQuery(citation, paper) ==
    LET tool_type == Lower(Get(citation, "tool_type", ""))
        citation_id == Get(citation, "citation_id", "")
    IN  IF tool_type = "paper_search" /\ paper # NoPaper
        THEN PaperOrUniqueKey(paper, citation_id)
        ELSE IF tool_type = "paper_search"
        THEN PaperOrUniqueKey(citation, citation_id)
        ELSE "unique:" \o Get(citation, "query", "")

_get_citation_dedup_key(citation, paper) ==
    LET tool_type == Lower(Get(citation, "tool_type", ""))
        citation_id == Get(citation, "citation_id", "")
    IN  IF tool_type = "paper_search" /\ paper # NoPaper
        THEN PaperOrUniqueKey(paper, citation_id)
        ELSE IF tool_type = "paper_search"
        THEN PaperOrUniqueKey(citation, citation_id)
        ELSE "unique:" \o citation_id

Sentinel == <<999, 999, 999>>

_extract_citation_sort_key(citation_id) ==
    IF StartsWith(citation_id, "PLAN-")
    THEN IF IsIntLiteral(RemoveAll(citation_id, "PLAN-"))
         THEN <<0, 0, PyInt(RemoveAll(citation_id, "PLAN-"))>>
         ELSE Sentinel
    ELSE LET parts == Split(RemoveAll(citation_id, "CIT-"), "-")
         IN  IF Len(parts) = 2 /\ IsIntLiteral(parts[1]) /\ IsIntLiteral(parts[2])
             THEN <<1, PyInt(parts[1]), PyInt(parts[2])>>
             ELSE Sentinel

\* a < b for tuples of three integers
\* (mutation) the comparison of a descending sort
TupleGreater(a, b) ==
    \/ a[1] > b[1]
    \/ a[1] = b[1] /\ a[2] > b[2]
    \/ a[1] = b[1] /\ a[2] = b[2] /\ a[3] > b[3]

TupleLess(a, b) ==
    \/ a[1] < b[1]
    \/ a[1] = b[1] /\ a[2] < b[2]
    \/ a[1] = b[1] /\ a[2] = b[2] /\ a[3] < b[3]

\* (mutation) the ids walked in the order they were added
SortedAsInserted(ids) == ids

\* sorted(ids, key=self._extract_citation_sort_key): a stable sort
RECURSIVE SortedByKey(_)
SortedByKey(ids) ==
    IF ids = <<>> THEN <<>>
    ELSE LET rest == SortedByKey(SubSeq(ids, 1, Len(ids) - 1))
             x == ids[Len(ids)]
             p == Cardinality({i \in 1..Len(rest) :
                     ~TupleLess(_extract_citation_sort_key(x),
                                _extract_citation_sort_key(rest[i]))})
         IN  SubSeq(rest, 1, p) \o <<x>> \o SubSeq(rest, p + 1, Len(rest))

\* (mutation) ref_idx started at the size of the cached map
RefStateFromCache ==
    [seen_keys |-> <<>>, ref_idx |-> Cardinality(DOMAIN ref_number_map), ref_map |-> <<>>]

\* seen_keys, ref_idx and ref_map before the walk
NewRefState == [seen_keys |-> <<>>, ref_idx |-> 0, ref_map |-> <<>>]

\* (mutation) every key given a new number
AssignAlwaysNew(st, dedup_key, entries) ==
    [seen_keys |-> Put(st.seen_keys, dedup_key, st.ref_idx + 1),
     ref_idx |-> st.ref_idx + 1,
     ref_map |-> [e \in DOMAIN st.ref_map \cup entries |->
                    IF e \in entries THEN st.ref_idx + 1 ELSE st.ref_map[e]]]

\* (mutation) ref_idx not advanced for a new key
AssignWithoutIncrement(st, dedup_key, entries) ==
    IF dedup_key \in DOMAIN st.seen_keys
    THEN [st EXCEPT !.ref_map = [e \in DOMAIN st.ref_map \cup entries |->
                                   IF e \in entries THEN st.seen_keys[dedup_key]
                                   ELSE st.ref_map[e]]]
    ELSE [seen_keys |-> Put(st.seen_keys, dedup_key, st.ref_idx + 1),
          ref_idx |-> st.ref_idx,
          ref_map |-> [e \in DOMAIN st.ref_map \cup entries |->
                         IF e \in entries THEN st.ref_idx + 1 ELSE st.ref_map[e]]]

\* the number of a dedup key is the one it was seen with, or the next one;
\* it is stored under the entries
Assign(st, dedup_key, entries) ==
    IF dedup_key \in DOMAIN st.seen_keys
    THEN [st EXCEPT !.ref_map = [e \in DOMAIN st.ref_map \cup entries |->
                                   IF e \in entries THEN st.seen_keys[dedup_key]
                                   ELSE st.ref_map[e]]]
    ELSE [seen_keys |-> Put(st.seen_keys, dedup_key, st.ref_idx + 1),
          ref_idx |-> st.ref_idx + 1,
          ref_map |-> [e \in DOMAIN st.ref_map \cup entries |->
                         IF e \in entries THEN st.ref_idx + 1 ELSE st.ref_map[e]]]

\* f"{citation_id}-{paper_idx + 1}", i = paper_idx + 1
SyntheticId(citation_id, i) == citation_id \o "-" \o NatToStr(i)

\* (mutation) the loop storing every paper under the bare citation id too
RECURSIVE WalkPapersBareId(_, _, _, _, _)
WalkPapersBareId(st, citation_id, citation, papers, i) ==
    IF i > Len(papers) THEN st
    ELSE WalkPapersBareId(Assign(st, _get_citation_dedup_key(citation, papers[i]),
                                 {citation_id, SyntheticId(citation_id, i)}),
                          citation_id, citation, papers, i + 1)

\* for paper_idx, paper in enumerate(papers), from the i-th paper on
RECURSIVE WalkPapers(_, _, _, _, _)
WalkPapers(st, citation_id, citation, papers, i) ==
    IF i > Len(papers) THEN st
    ELSE WalkPapers(Assign(st, _get_citation_dedup_key(citation, papers[i]),
                           IF i = 1 THEN {citation_id, SyntheticId(citation_id, i)}
                           ELSE {SyntheticId(citation_id, i)}),
                    citation_id, citation, papers, i + 1)

\* the body of the loop over sorted_citation_ids
WalkCitation(st, table, citation_id) ==
    LET citation == table[citation_id]
        tool_type == Lower(Get(citation, "tool_type", ""))
        papers == Get(citation, "papers", <<>>)
    IN  IF citation = <<>> THEN st
        ELSE IF tool_type = "paper_search" /\ papers # <<>>
        THEN WalkPapers(st, citation_id, citation, papers, 1)
        ELSE Assign(st, _get_citation_dedup_key(citation, NoPaper), {citation_id})

\* for citation_id in sorted_citation_ids, from the k-th id on
RECURSIVE WalkCitations(_, _, _, _)
WalkCitations(st, table, ids, k) ==
    IF k > Len(ids) THEN st
    ELSE WalkCitations(WalkCitation(st, table, ids[k]), table, ids, k + 1)

\* the map build_ref_number_map builds and returns
RefNumberMap(table, order) ==
    IF table = EmptyDict THEN EmptyDict
    ELSE WalkCitations(NewRefState, table, SortedByKey(order), 1).ref_map

\* (mutation) the table's keys re-ordered by the sort
BuildSortingTable ==
    /\ ref_number_map' = RefNumberMap(citations, cit_order)
    /\ cit_order' = SortedByKey(cit_order)
    /\ UNCHANGED <<citations, plan_counter, block_counters, attr_type, disk>>

build_ref_number_map ==
    /\ ref_number_map' = RefNumberMap(citations, cit_order)
    /\ UNCHANGED <<citations, cit_order, plan_counter, block_counters, attr_type, disk>>

\* (mutation) the map rebuilt on every access
MapAlwaysRebuilt == RefNumberMap(citations, cit_order)

\* the cache after "if not self._ref_number_map: self.build_ref_number_map()"
MapAfterAccess ==
    IF ref_number_map = EmptyDict THEN RefNumberMap(citations, cit_order)
    ELSE ref_number_map

get_ref_number(citation_id) ==
    /\ ref_number_map' = MapAfterAccess
    /\ UNCHANGED <<citations, cit_order, plan_counter, block_counters, attr_type, disk>>

get_ref_number_map ==
    /\ ref_number_map' = MapAfterAccess
    /\ UNCHANGED <<citations, cit_order, plan_counter, block_counters, attr_type, disk>>

(***************************************************************************)
(* Citation markers in text.                                               *)
(***************************************************************************)

citation_exists(citation_id) == citation_id \in DOMAIN citations

\* c is one of the characters of chars
CharIn(c, chars) == \E k \in 1..Len(chars) : CharAt(chars, k) = c

\* the n characters of s from position i, or "" when s ends before them
Piece(s, i, n) == IF i + n - 1 <= Len(s) THEN SubSeq(s, i, i + n - 1) ELSE ""

\* the position after the longest run of characters of chars from position i
RECURSIVE RunEnd(_, _, _)
RunEnd(s, i, chars) ==
    IF i <= Len(s) /\ CharIn(CharAt(s, i), chars) THEN RunEnd(s, i + 1, chars) ELSE i

\* [letters]+-\d+-?\d* matched at position i: each part is greedy and what
\* follows a part cannot start with a character of the part
IdSpan(s, i, letters) ==
    LET b == RunEnd(s, i, letters)
        d == RunEnd(s, b + 1, "0123456789")
        e == IF Piece(s, d, 1) = "-" THEN d + 1 ELSE d
    IN  [matched |-> b > i /\ Piece(s, b, 1) = "-" /\ d > b + 1,
         end |-> RunEnd(s, e, "0123456789")]

\* \[\[([A-Z]+-\d+-?\d*)\]\] matched at position i: the position after the
\* match, or 0
MarkerEnd(s, i) ==
    LET id == IdSpan(s, i + 2, UpperChars)
    IN  IF Piece(s, i, 2) = "[[" /\ id.matched /\ Piece(s, id.end, 2) = "]]"
        THEN id.end + 2 ELSE 0

\* group 1 of a match at position i
MarkerId(s, i) == SubSeq(s, i + 2, MarkerEnd(s, i) - 3)

\* \[\[([A-Z]+-\d+-?\d*)\]\]\(#ref-[a-z]+-\d+-?\d*\) matched at position i:
\* the position after the match, or 0
AnchoredEnd(s, i) ==
    LET m == MarkerEnd(s, i)
        id == IdSpan(s, m + 6, LowerChars)
    IN  IF m # 0 /\ Piece(s, m, 6) = "(#ref-" /\ id.matched /\ Piece(s, id.end, 1) = ")"
        THEN id.end + 1 ELSE 0

\* re.findall(pattern, text), from position i on: the matches are taken
\* leftmost first and do not overlap
RECURSIVE FindAll(_, _)
FindAll(s, i) ==
    IF i > Len(s) THEN <<>>
    ELSE IF MarkerEnd(s, i) # 0 THEN <<MarkerId(s, i)>> \o FindAll(s, MarkerEnd(s, i))
    ELSE FindAll(s, i + 1)

\* (mutation) total_found counting the valid references only
ValidationCountingValid(text) ==
    LET found_refs == FindAll(text, 1)
        valid == SelectSeq(found_refs, citation_exists)
        invalid == SelectSeq(found_refs, LAMBDA ref : ~citation_exists(ref))
    IN  [valid_citations |-> valid, invalid_citations |-> invalid,
         is_valid |-> Len(invalid) = 0, total_found |-> Len(valid)]

validate_citation_references(text) ==
    LET found_refs == FindAll(text, 1)
        valid == SelectSeq(found_refs, citation_exists)
        invalid == SelectSeq(found_refs, LAMBDA ref : ~citation_exists(ref))
    IN  [valid_citations |-> valid, invalid_citations |-> invalid,
         is_valid |-> Len(invalid) = 0, total_found |-> Len(found_refs)]

\* re.sub(pattern, replace_invalid, text), from position i on
RECURSIVE SubInvalid(_, _)
SubInvalid(s, i) ==
    IF i > Len(s) THEN ""
    ELSE IF AnchoredEnd(s, i) # 0
    THEN (IF citation_exists(MarkerId(s, i)) THEN SubSeq(s, i, AnchoredEnd(s, i) - 1) ELSE "")
         \o SubInvalid(s, AnchoredEnd(s, i))
    ELSE CharAt(s, i) \o SubInvalid(s, i + 1)

fix_invalid_citations(text) == SubInvalid(text, 1)

(***************************************************************************)
(* Bounds and the inputs the calls are given.                              *)
(***************************************************************************)

MaxCounter == 2      \* the generators stop at this counter value

BlockIds == {"block_1"}
Stages == {"planning", "research"}

\* the block_id and stage arguments of the sessions that only generate ids
AllBlockIds == {"block_1", "b_1", "my_block_3", "block_-1"}
AllStages == {"planning", "research", "review"}

\* the ids callers pass to add_citation: two that the generators return and
\* one that they have not returned
AddIds == {"PLAN-01", "CIT-1-01", "PLAN-03"}

\* the documents a store is constructed over: written by an earlier version
\* or by hand, with every combination of the sections below
LoadIdSeq == <<"PLAN-01", "PLAN-03", "PLAN-xx", "CIT-2-01", "CIT-2-03", "CIT--1-01">>
LoadIds == {LoadIdSeq[i] : i \in 1..Len(LoadIdSeq)}
LoadRecord(id) ==
    [citation_id |-> id, tool_type |-> "run_code", query |-> "q", summary |-> "s",
     timestamp |-> "t"]
LoadCitationSections ==
    {[t |-> "dict", v |-> [id \in S |-> LoadRecord(id)],
      order |-> SelectSeq(LoadIdSeq, LAMBDA id : id \in S)] : S \in SUBSET LoadIds}
    \cup {Missing, [t |-> "null"], [t |-> "list", items |-> <<"PLAN-03">>]}
JsonInt(n) == [t |-> "int", v |-> n]
JsonCounters(v) == [t |-> "dict", v |-> v]
LoadCounterSections ==
    {Missing, [t |-> "null"], [t |-> "str", s |-> "abc"], [t |-> "list", items |-> <<1>>],
     [t |-> "dict", f |-> <<>>],
     [t |-> "dict", f |-> [plan_counter |-> JsonInt(0), block_counters |-> JsonCounters(<<>>)]],
     [t |-> "dict", f |-> [plan_counter |-> JsonInt(1)]],
     [t |-> "dict", f |-> [plan_counter |-> JsonInt(3),
                           block_counters |-> JsonCounters([k \in {"2"} |-> 3])]],
     [t |-> "dict", f |-> [plan_counter |-> [t |-> "str", s |-> "x"]]],
     [t |-> "dict", f |-> [plan_counter |-> JsonInt(1),
                           block_counters |-> [t |-> "list", items |-> <<1>>]]]}
LoadDocs ==
    {Absent, Unparseable, NonObject}
    \cup {[kind |-> "object", research_id |-> ResearchName, citations |-> c, counters |-> k] :
             c \in LoadCitationSections, k \in LoadCounterSections}

TraceOk == [attrs |-> TRUE, query |-> "q", summary |-> "s", timestamp |-> "t"]
TraceNoAttrs == [attrs |-> FALSE, query |-> "", summary |-> "", timestamp |-> ""]
TraceObject == [attrs |-> TRUE, query |-> Unserialisable, summary |-> "s", timestamp |-> "t"]

NotJson == [t |-> "text"]
JsonArray == [t |-> "list"]
JsonObject(f) == [t |-> "dict", f |-> f]
JsonList(items) == [t |-> "list", items |-> items]
JsonDict(f) == [t |-> "dict", f |-> f]
JsonStr(s) == [t |-> "str", s |-> s]

(***************************************************************************)
(* The calls of a single-task session.  issued and last are history        *)
(* variables: the ids each generator has returned to this object's         *)
(* callers, per planning stage and per block_id argument, and the call     *)
(* that completed last with its result.                                    *)
(***************************************************************************)

NumTasks == 3        \* the tasks the event loop runs
Tasks == 1..NumTasks
NoTask == 0

\* no task has been created; a new asyncio.Lock is free
NoTasks ==
    /\ pc = [t \in Tasks |-> "idle"]
    /\ running = NoTask
    /\ locked = FALSE
    /\ waiters = <<>>
    /\ call = [t \in Tasks |-> [op |-> "none"]]
    /\ ret = [t \in Tasks |-> "none"]

\* no attribute holds a value of a type the methods cannot work on
Usable == attr_type = NormalTypes

NoneIssued == [plan |-> <<>>, research |-> [b \in {} |-> <<>>]]

IssuedPlan(id) == [issued EXCEPT !.plan = Append(@, id)]

IssuedResearch(block_id, id) ==
    [issued EXCEPT !.research = Put(@, block_id, Append(Get(@, block_id, <<>>), id))]

IssuedIds ==
    {issued.plan[i] : i \in 1..Len(issued.plan)}
    \cup UNION {{issued.research[b][i] : i \in 1..Len(issued.research[b])} :
                   b \in DOMAIN issued.research}

GeneratePlan ==
    /\ Usable
    /\ UNCHANGED tasks
    /\ plan_counter < MaxCounter
    /\ generate_plan_citation_id
    /\ issued' = IssuedPlan(NextPlanId)
    /\ last' = [op |-> "generate_plan_citation_id", ret |-> NextPlanId]

GenerateResearch(block_id) ==
    /\ Usable
    /\ UNCHANGED tasks
    /\ Get(block_counters, BlockKey(block_id), 0) < MaxCounter
    /\ generate_research_citation_id(block_id)
    /\ issued' = IssuedResearch(block_id, NextResearchId(block_id))
    /\ last' = [op |-> "generate_research_citation_id", block_id |-> block_id,
                ret |-> NextResearchId(block_id)]

GetNext(stage, block_id) ==
    /\ Usable
    /\ UNCHANGED tasks
    /\ IF stage = "planning" THEN plan_counter < MaxCounter
       ELSE Get(block_counters, BlockKey(block_id), 0) < MaxCounter
    /\ get_next_citation_id(stage, block_id)
    /\ issued' = IF stage = "planning" THEN IssuedPlan(NextCitationId(stage, block_id))
                 ELSE IssuedResearch(block_id, NextCitationId(stage, block_id))
    /\ last' = [op |-> "get_next_citation_id", stage |-> stage, block_id |-> block_id,
                ret |-> NextCitationId(stage, block_id)]

AddCitation(citation_id, tool_type, tool_trace, raw_answer, io) ==
    /\ Usable
    /\ UNCHANGED tasks
    /\ add_citation(citation_id, tool_type, tool_trace, raw_answer, io)
    /\ UNCHANGED issued
    /\ last' = [op |-> "add_citation", citation_id |-> citation_id, raw |-> raw_answer.t,
                tool_type |-> tool_type, attrs |-> tool_trace.attrs, io |-> io,
                ret |-> AddCitationResult(citation_id, tool_type, tool_trace, raw_answer)]

\* the process ends and a new CitationManager is made over the same file
Restart ==
    /\ Construct
    /\ UNCHANGED tasks
    /\ issued' = NoneIssued
    /\ last' = [op |-> "load"]

\* a new CitationManager in a cache directory that holds no citations.json
Init ==
    /\ citations = EmptyDict
    /\ cit_order = <<>>
    /\ plan_counter = 0
    /\ block_counters = EmptyDict
    /\ ref_number_map = EmptyDict
    /\ attr_type = NormalTypes
    /\ disk = Absent
    /\ issued = NoneIssued
    /\ last = [op |-> "load"]
    /\ NoTasks

\* the call of _load_citations that ends __init__
LoadCitations ==
    /\ last.op = "new"
    /\ UNCHANGED tasks
    /\ Construct
    /\ issued' = NoneIssued
    /\ last' = [op |-> "load"]

\* __init__ has assigned the attributes of lines 37-47; the cache directory
\* holds any of the documents
InitLoad ==
    /\ citations = NewObject.citations
    /\ cit_order = NewObject.order
    /\ plan_counter = NewObject.plan_counter
    /\ block_counters = NewObject.block_counters
    /\ ref_number_map = EmptyDict
    /\ attr_type = NewObject.types
    /\ disk \in LoadDocs
    /\ issued = NoneIssued
    /\ last = [op |-> "new"]
    /\ NoTasks

\* the construction of a store over a document, and the ids asked of it
NextLoad ==
    \/ LoadCitations
    \/ last.op # "new" /\ GeneratePlan
    \/ \E b \in {"block_2"} : last.op # "new" /\ GenerateResearch(b)

SpecLoad == InitLoad /\ [][NextLoad]_vars

\* what open() and json.dump meet in _save_citations
IoOutcomes == {"ok", "oserror"}
Traces == {TraceOk, TraceNoAttrs, TraceObject}
FaultIds == {"PLAN-01", "PLAN-02"}

\* a session in which a write can fail and a tool trace can hold a value
\* that json.dump rejects
NextFault ==
    \/ GeneratePlan
    \/ \E id \in FaultIds, tr \in Traces, io \in IoOutcomes :
          AddCitation(id, "run_code", tr, NotJson, io)
    \/ Restart

SpecFault == Init /\ [][NextFault]_vars

\* the tool types and raw answers add_citation is given
ToolTypes ==
    {"rag_naive", "rag_hybrid", "query_item", "web_search", "paper_search", "run_code",
     "Web_Search", "note"}
WebAnswer ==
    JsonObject([results |-> JsonList(<<JsonDict([title |-> "T", url |-> "http://a"]),
                                       JsonDict([title |-> "U"]), JsonStr("x")>>)])
RagAnswer ==
    JsonObject([chunks |-> JsonList(<<JsonDict([title |-> "T", content |-> "c"]),
                                      JsonStr("text")>>),
                kb_name |-> "kb"])
PaperAnswer ==
    JsonObject([papers |-> JsonList(<<JsonDict([title |-> "P", authors |-> <<"A", "B">>,
                                                year |-> "2020"])>>)])
RawAnswers == {NotJson, JsonArray, JsonObject(<<>>), WebAnswer, RagAnswer, PaperAnswer}

\* a session that records what the tools returned
NextExtract ==
    \/ \E id \in {"CIT-1-01"}, tt \in ToolTypes, tr \in {TraceOk, TraceNoAttrs},
          raw \in RawAnswers : AddCitation(id, tt, tr, raw, "ok")
    \/ Restart

SpecExtract == Init /\ [][NextExtract]_vars

(***************************************************************************)
(* The *_async methods on one event loop.  A task runs until it returns or *)
(* suspends; a coroutine suspends only in the lock's acquire().            *)
(***************************************************************************)

AsyncCalls ==
    {[op |-> "generate_plan_citation_id_async"],
     [op |-> "generate_research_citation_id_async", block_id |-> "block_5"],
     [op |-> "get_next_citation_id_async", stage |-> "research", block_id |-> "block_5"],
     [op |-> "add_citation_async", citation_id |-> "CIT-5-01", tool_type |-> "run_code",
      tool_trace |-> TraceOk],
     [op |-> "add_citation_async", citation_id |-> "CIT-5-01", tool_type |-> "run_code",
      tool_trace |-> TraceNoAttrs]}

\* asyncio.create_task(manager.<c.op>(...)): tasks are numbered as created
Call(t, c) ==
    /\ running = NoTask
    /\ pc[t] = "idle"
    /\ \A u \in Tasks : u < t => pc[u] # "idle"
    /\ pc' = [pc EXCEPT ![t] = "acquire"]
    /\ call' = [call EXCEPT ![t] = c]
    /\ UNCHANGED <<store, disk, issued, last, running, locked, waiters, ret>>

\* the event loop resumes a task that can run
Resume(t) ==
    /\ running = NoTask
    /\ pc[t] \notin {"idle", "waiting", "done"}
    /\ running' = t
    /\ UNCHANGED <<store, disk, issued, last, pc, locked, waiters, call, ret>>

\* (mutation) the section entered without the lock, after a suspension
LockAcquireWithoutLock(t) ==
    /\ running = t
    /\ pc[t] \in {"acquire", "woken"}
    /\ pc' = [pc EXCEPT ![t] = "body"]
    /\ running' = NoTask
    /\ UNCHANGED <<store, disk, issued, last, locked, waiters, call, ret>>

\* async with self._lock: Lock.acquire().  A free lock with no waiter is
\* taken without suspending; otherwise the task queues and suspends, and
\* takes the lock when release() has woken it.
LockAcquire(t) ==
    /\ running = t
    /\ pc[t] \in {"acquire", "woken"}
    /\ IF pc[t] = "woken"
       THEN /\ locked' = TRUE
            /\ waiters' = SelectSeq(waiters, LAMBDA u : u # t)
            /\ pc' = [pc EXCEPT ![t] = "body"]
            /\ UNCHANGED running
       ELSE IF ~locked /\ waiters = <<>>
       THEN /\ locked' = TRUE
            /\ pc' = [pc EXCEPT ![t] = "body"]
            /\ UNCHANGED <<waiters, running>>
       ELSE /\ waiters' = Append(waiters, t)
            /\ pc' = [pc EXCEPT ![t] = "waiting"]
            /\ running' = NoTask
            /\ UNCHANGED locked
    /\ UNCHANGED <<store, disk, issued, last, call, ret>>

\* a bool among the values a task returns, which are text otherwise
PyBool(b) == IF b THEN "True" ELSE "False"

\* (mutation) get_next_citation_id_async calling the async generators, which
\* ask for the lock the task holds
BodyReacquiring(t) ==
    /\ running = t
    /\ pc[t] = "body"
    /\ LET c == call[t]
       IN  IF c.op = "get_next_citation_id_async"
           THEN /\ pc' = [pc EXCEPT ![t] = "acquire"]
                /\ UNCHANGED <<store, disk, ret>>
           ELSE /\ pc' = [pc EXCEPT ![t] = "release"]
                /\ IF c.op = "generate_plan_citation_id_async" THEN generate_plan_citation_id
                   ELSE IF c.op = "generate_research_citation_id_async"
                   THEN generate_research_citation_id(c.block_id)
                   ELSE add_citation(c.citation_id, c.tool_type, c.tool_trace, NotJson, "ok")
                /\ ret' = [ret EXCEPT ![t] = IF c.op = "add_citation_async" THEN
                              PyBool(~ExtractionRaises(c.tool_trace, NotJson)) ELSE ""]
    /\ UNCHANGED <<issued, last, running, locked, waiters, call>>

\* (mutation) a section that suspends before it releases the lock
BodyThenSuspend(t) ==
    /\ running = t
    /\ pc[t] = "body"
    /\ pc' = [pc EXCEPT ![t] = "release"]
    /\ LET c == call[t]
       IN  /\ IF c.op = "generate_plan_citation_id_async" THEN generate_plan_citation_id
              ELSE IF c.op = "generate_research_citation_id_async"
              THEN generate_research_citation_id(c.block_id)
              ELSE IF c.op = "get_next_citation_id_async"
              THEN get_next_citation_id(c.stage, c.block_id)
              ELSE add_citation(c.citation_id, c.tool_type, c.tool_trace, NotJson, "ok")
           /\ ret' = [ret EXCEPT ![t] = IF c.op = "add_citation_async" THEN "True" ELSE ""]
    /\ running' = NoTask
    /\ UNCHANGED <<issued, last, locked, waiters, call>>

\* what the synchronous method called inside the section returns
BodyResult(c) ==
    IF c.op = "generate_plan_citation_id_async" THEN NextPlanId
    ELSE IF c.op = "generate_research_citation_id_async" THEN NextResearchId(c.block_id)
    ELSE IF c.op = "get_next_citation_id_async" THEN NextCitationId(c.stage, c.block_id)
    ELSE PyBool(AddCitationResult(c.citation_id, c.tool_type, c.tool_trace, NotJson))

\* return self.<method>(...) inside the section
Body(t) ==
    /\ running = t
    /\ pc[t] = "body"
    /\ pc' = [pc EXCEPT ![t] = "release"]
    /\ LET c == call[t]
       IN  /\ IF c.op = "generate_plan_citation_id_async" THEN generate_plan_citation_id
              ELSE IF c.op = "generate_research_citation_id_async"
              THEN generate_research_citation_id(c.block_id)
              ELSE IF c.op = "get_next_citation_id_async"
              THEN get_next_citation_id(c.stage, c.block_id)
              ELSE add_citation(c.citation_id, c.tool_type, c.tool_trace, NotJson, "ok")
           /\ ret' = [ret EXCEPT ![t] = BodyResult(c)]
    /\ UNCHANGED <<issued, last, running, locked, waiters, call>>

\* leaving the async with block: Lock.release() wakes the first waiter, and
\* the coroutine returns
LockRelease(t) ==
    /\ running = t
    /\ pc[t] = "release"
    /\ locked' = FALSE
    /\ pc' = [u \in Tasks |->
                IF u = t THEN "done"
                ELSE IF waiters # <<>> /\ u = Head(waiters) THEN "woken" ELSE pc[u]]
    /\ running' = NoTask
    /\ UNCHANGED <<store, disk, issued, last, waiters, call, ret>>

NextAsync ==
    \/ \E t \in Tasks, c \in AsyncCalls : Call(t, c)
    \/ \E t \in Tasks : Resume(t)
    \/ \E t \in Tasks : LockAcquire(t)
    \/ \E t \in Tasks : Body(t)
    \/ \E t \in Tasks : LockRelease(t)

SpecAsync == Init /\ [][NextAsync]_vars

\* the event loop runs every task that is ready (its ready queue is first
\* in, first out), and a running coroutine goes on to its next await
TaskStep(t) == Resume(t) \/ LockAcquire(t) \/ LockRelease(t)

\* the step of Body(t) as the positions show it: Body(t) is enabled whenever
\* t runs at "body", and no other step takes t from there to "release"
SectionStep(t) ==
    /\ running = t
    /\ pc[t] = "body"
    /\ pc' = [pc EXCEPT ![t] = "release"]

Fairness == \A t \in Tasks : WF_vars(TaskStep(t)) /\ WF_pc(SectionStep(t))

SpecAsyncFair == Init /\ [][NextAsync]_vars /\ Fairness

\* tasks that all write citations, some under the same id
WriterCalls ==
    {[op |-> "add_citation_async", citation_id |-> "CIT-5-01", tool_type |-> "web_search",
      tool_trace |-> TraceOk],
     [op |-> "add_citation_async", citation_id |-> "CIT-5-01", tool_type |-> "run_code",
      tool_trace |-> TraceOk],
     [op |-> "add_citation_async", citation_id |-> "PLAN-01", tool_type |-> "run_code",
      tool_trace |-> TraceOk],
     [op |-> "add_citation_async", citation_id |-> "PLAN-02", tool_type |-> "web_search",
      tool_trace |-> TraceNoAttrs]}

NextWriters ==
    \/ \E t \in Tasks, c \in WriterCalls : Call(t, c)
    \/ \E t \in Tasks : Resume(t)
    \/ \E t \in Tasks : LockAcquire(t)
    \/ \E t \in Tasks : Body(t)
    \/ \E t \in Tasks : LockRelease(t)

SpecWriters == Init /\ [][NextWriters]_vars

\* tasks that call the synchronous reference-number methods, which take no
\* lock, next to tasks that write
ReaderCalls ==
    {[op |-> "build_ref_number_map"],
     [op |-> "get_ref_number", citation_id |-> "PLAN-01"],
     [op |-> "get_ref_number", citation_id |-> "CIT-5-01"]}

CallSync(t, c) ==
    /\ running = NoTask
    /\ pc[t] = "idle"
    /\ \A u \in Tasks : u < t => pc[u] # "idle"
    /\ pc' = [pc EXCEPT ![t] = "sync"]
    /\ call' = [call EXCEPT ![t] = c]
    /\ UNCHANGED <<store, disk, issued, last, running, locked, waiters, ret>>

\* the task runs the synchronous method from start to end and returns
RunSync(t) ==
    /\ running = t
    /\ pc[t] = "sync"
    /\ LET c == call[t]
       IN  IF c.op = "build_ref_number_map"
           THEN /\ build_ref_number_map
                /\ ret' = [ret EXCEPT ![t] = ref_number_map']
           ELSE /\ get_ref_number(c.citation_id)
                /\ ret' = [ret EXCEPT ![t] = Get(ref_number_map', c.citation_id, 0)]
    /\ pc' = [pc EXCEPT ![t] = "done"]
    /\ running' = NoTask
    /\ UNCHANGED <<issued, last, locked, waiters, call>>

NextTasks ==
    \/ \E t \in Tasks, c \in WriterCalls : Call(t, c)
    \/ \E t \in Tasks, c \in ReaderCalls : CallSync(t, c)
    \/ \E t \in Tasks : Resume(t)
    \/ \E t \in Tasks : LockAcquire(t)
    \/ \E t \in Tasks : Body(t)
    \/ \E t \in Tasks : LockRelease(t)
    \/ \E t \in Tasks : RunSync(t)

SpecTasks == Init /\ [][NextTasks]_vars

(***************************************************************************)
(* Reference numbers over citation tables.                                 *)
(***************************************************************************)

BuildRefNumberMap ==
    /\ Usable
    /\ UNCHANGED tasks
    /\ build_ref_number_map
    /\ UNCHANGED issued
    /\ last' = [op |-> "build_ref_number_map", ret |-> ref_number_map',
                was |-> IF ref_number_map = EmptyDict THEN "empty"
                        ELSE IF ref_number_map = ref_number_map' THEN "current"
                        ELSE "stale"]

GetRefNumber(citation_id) ==
    /\ Usable
    /\ UNCHANGED tasks
    /\ get_ref_number(citation_id)
    /\ UNCHANGED issued
    /\ last' = [op |-> "get_ref_number", citation_id |-> citation_id,
                built |-> (ref_number_map = EmptyDict),
                ret |-> Get(ref_number_map', citation_id, 0)]

GetRefNumberMap ==
    /\ Usable
    /\ UNCHANGED tasks
    /\ get_ref_number_map
    /\ UNCHANGED issued
    /\ last' = [op |-> "get_ref_number_map", built |-> (ref_number_map = EmptyDict),
                ret |-> ref_number_map']

\* the ids of the tables, in the order they were added
RefIdSeq == <<"NOTE-1", "CIT-10-01", "CIT-2-01", "PLAN-01">>
RefIds == {RefIdSeq[i] : i \in 1..Len(RefIdSeq)}

PaperAnswerA ==
    JsonObject([papers |-> JsonList(<<JsonDict([title |-> "Deep Nets",
                                                authors |-> <<"Smith", "Lee">>])>>)])
PaperAnswerB ==
    JsonObject([papers |-> JsonList(<<JsonDict([title |-> " deep nets", authors |-> <<"SMITH">>]),
                                      JsonDict([title |-> "Other", authors |-> <<>>])>>)])

PaperAnswerC ==
    JsonObject([papers |-> JsonList(<<JsonDict([title |-> "Other", authors |-> <<>>])>>)])

\* what add_citation was given for a record: tool type and raw answer
RefInputs ==
    {[tool_type |-> "web_search", raw_answer |-> NotJson],
     [tool_type |-> "run_code", raw_answer |-> NotJson],
     [tool_type |-> "paper_search", raw_answer |-> NotJson],
     [tool_type |-> "paper_search", raw_answer |-> PaperAnswerA],
     [tool_type |-> "paper_search", raw_answer |-> PaperAnswerB],
     [tool_type |-> "paper_search", raw_answer |-> PaperAnswerC]}

\* the tables add_citation builds from the inputs over the ids
TablesOver(ids, inputs) ==
    UNION {{[id \in S |-> ExtractCitation(id, in[id].tool_type, TraceOk, in[id].raw_answer)] :
               in \in [S -> inputs]} : S \in SUBSET ids}

\* a store holding such a table, before any reference number was asked for
InitTable(idseq, inputs) ==
    /\ citations \in TablesOver({idseq[i] : i \in 1..Len(idseq)}, inputs)
    /\ cit_order = SelectSeq(idseq, LAMBDA id : id \in DOMAIN citations)
    /\ plan_counter = 0
    /\ block_counters = EmptyDict
    /\ ref_number_map = EmptyDict
    /\ attr_type = NormalTypes
    /\ disk = Document(citations, cit_order, plan_counter, block_counters)
    /\ issued = NoneIssued
    /\ last = [op |-> "load"]
    /\ NoTasks

InitRefs == InitTable(RefIdSeq, RefInputs)

NextRefs ==
    \/ BuildRefNumberMap
    \/ \E id \in RefIds : GetRefNumber(id)
    \/ GetRefNumberMap

SpecRefs == InitRefs /\ [][NextRefs]_vars

\* tables whose ids differ in every part of the sort key, added in an order
\* that is not the sort order
OrderIdSeq == <<"NOTE-1", "CIT-10-01", "CIT-2-100", "CIT-2-20", "PLAN-100", "PLAN-20">>
OrderInputs ==
    {[tool_type |-> "web_search", raw_answer |-> NotJson],
     [tool_type |-> "paper_search", raw_answer |-> PaperAnswerA]}

InitOrder == InitTable(OrderIdSeq, OrderInputs)

SpecOrder == InitOrder /\ [][NextRefs]_vars

\* texts made of markers, anchors and other text
MaxPieces == 4       \* the texts hold up to this many pieces
Pieces == <<"[[CIT-1-01]]", "[[CIT-9-99]]", "(#ref-cit-9-99)", " and ", "[[cit-1-01]]">>
TextOf(ps) == Join([k \in 1..Len(ps) |-> Pieces[ps[k]]], "")

\* the caller's text grows by a piece from one call to the next
NextPieces ==
    IF "pieces" \notin DOMAIN last THEN {<<>>}
    ELSE {Append(last.pieces, k) : k \in {j \in 1..Len(Pieces) : Len(last.pieces) < MaxPieces}}

ValidateCitationReferences(ps) ==
    /\ Usable
    /\ UNCHANGED <<store, disk, issued, tasks>>
    /\ last' = [op |-> "validate_citation_references", pieces |-> ps, text |-> TextOf(ps),
                ret |-> validate_citation_references(TextOf(ps))]

FixInvalidCitations(ps) ==
    /\ Usable
    /\ UNCHANGED <<store, disk, issued, tasks>>
    /\ last' = [op |-> "fix_invalid_citations", pieces |-> ps, text |-> TextOf(ps),
                again |-> FALSE, ret |-> fix_invalid_citations(TextOf(ps))]

\* fix_invalid_citations applied to the text it has just returned
FixAgain ==
    /\ Usable
    /\ last.op = "fix_invalid_citations"
    /\ UNCHANGED <<store, disk, issued, tasks>>
    /\ last' = [op |-> "fix_invalid_citations", pieces |-> last.pieces, text |-> last.ret,
                again |-> TRUE, ret |-> fix_invalid_citations(last.ret)]

\* the store holds any of the citations the markers name
TextIdSeq == <<"CIT-1-01", "CIT-9-99">>

InitText == InitTable(TextIdSeq, {[tool_type |-> "web_search", raw_answer |-> NotJson]})

NextText ==
    \/ \E ps \in NextPieces : ValidateCitationReferences(ps)
    \/ \E ps \in NextPieces : FixInvalidCitations(ps)
    \/ FixAgain

SpecText == InitText /\ [][NextText]_vars

\* a session that adds citations and asks for reference numbers in between
CacheIds == {"PLAN-01", "CIT-1-01", "CIT-2-01"}
CacheInputs ==
    {[tool_type |-> "web_search", raw_answer |-> NotJson],
     [tool_type |-> "paper_search", raw_answer |-> PaperAnswerA]}

NextCache ==
    \/ \E id \in CacheIds, in \in CacheInputs :
          AddCitation(id, in.tool_type, TraceOk, in.raw_answer, "ok")
    \/ BuildRefNumberMap
    \/ \E id \in CacheIds : GetRefNumber(id)
    \/ GetRefNumberMap

SpecCache == Init /\ [][NextCache]_vars

\* tables whose paper_search records list papers without a title
UntitledIdSeq == <<"CIT-1-01", "CIT-2-01", "PLAN-01">>
PaperAnswerU ==
    JsonObject([papers |-> JsonList(<<JsonDict([title |-> "", authors |-> <<"Smith">>]),
                                      JsonDict([title |-> "", authors |-> <<"Lee">>]),
                                      JsonDict([title |-> "Other", authors |-> <<>>])>>)])
PaperAnswerV ==
    JsonObject([papers |-> JsonList(<<JsonDict([title |-> " ", authors |-> <<"Smith">>])>>)])
UntitledInputs ==
    {[tool_type |-> "web_search", raw_answer |-> NotJson],
     [tool_type |-> "paper_search", raw_answer |-> PaperAnswerC],
     [tool_type |-> "paper_search", raw_answer |-> PaperAnswerU],
     [tool_type |-> "paper_search", raw_answer |-> PaperAnswerV]}

InitUntitled == InitTable(UntitledIdSeq, UntitledInputs)

SpecUntitled == InitUntitled /\ [][NextRefs]_vars

CitationExists(citation_id) ==
    /\ Usable
    /\ UNCHANGED <<store, disk, issued, tasks>>
    /\ last' = [op |-> "citation_exists", citation_id |-> citation_id,
                ret |-> citation_exists(citation_id)]

\* a session that uses every synchronous operation of the manager
SessionIds == {"PLAN-01", "CIT-1-01"}
SessionTexts == {<<1, 4, 2, 3>>}

NextSession ==
    \/ GeneratePlan
    \/ \E b \in BlockIds : GenerateResearch(b)
    \/ \E id \in SessionIds, in \in CacheInputs :
          AddCitation(id, in.tool_type, TraceOk, in.raw_answer, "ok")
    \/ \E id \in SessionIds : AddCitation(id, "web_search", TraceNoAttrs, NotJson, "ok")
    \/ BuildRefNumberMap
    \/ \E id \in SessionIds : GetRefNumber(id)
    \/ GetRefNumberMap
    \/ \E id \in SessionIds : CitationExists(id)
    \/ \E ps \in SessionTexts : ValidateCitationReferences(ps)
    \/ \E ps \in SessionTexts : FixInvalidCitations(ps)

SpecSession == Init /\ [][NextSession]_vars

\* a session on a file system whose writes succeed
Next ==
    \/ GeneratePlan
    \/ \E b \in BlockIds : GenerateResearch(b)
    \/ \E st \in Stages, b \in BlockIds : GetNext(st, b)
    \/ \E id \in AddIds, tr \in {TraceOk, TraceNoAttrs} :
          AddCitation(id, "run_code", tr, NotJson, "ok")
    \/ Restart

Spec == Init /\ [][Next]_vars

\* a session that only asks for ids
NextIds ==
    \/ GeneratePlan
    \/ \E b \in AllBlockIds : GenerateResearch(b)
    \/ \E st \in AllStages, b \in AllBlockIds : GetNext(st, b)

SpecIds == Init /\ [][NextIds]_vars

(***************************************************************************)
(* Properties.                                                             *)
(***************************************************************************)

\* the number a citation id ends in: the text after its last "-"
LastPiece(id) == Split(id, "-")[Len(Split(id, "-"))]
SuffixNum(id) == PyInt(LastPiece(id))

\* the block text of a CIT- id: what stands between "CIT-" and the last "-"
IdBlockText(id) == SubSeq(id, 5, Len(id) - Len(LastPiece(id)) - 1)

StrictlyIncreasing(ids) ==
    \A i, j \in 1..Len(ids) : i < j => SuffixNum(ids[i]) < SuffixNum(ids[j])

\* the logs of returned ids, as a set of <<log, position, id>>
Returned ==
    {<<"planning", i, issued.plan[i]>> : i \in 1..Len(issued.plan)}
    \cup UNION {{<<b, i, issued.research[b][i]>> : i \in 1..Len(issued.research[b])} :
                   b \in DOMAIN issued.research}

\* C1: the ids generate_plan_citation_id has returned have strictly
\* increasing numeric suffixes, so have the ids generate_research_citation_id
\* has returned for each block_id, and no id was returned twice.
C1_IdsIncreaseAndNeverRepeat ==
    /\ StrictlyIncreasing(issued.plan)
    /\ \A b \in DOMAIN issued.research : StrictlyIncreasing(issued.research[b])
    /\ \A r1, r2 \in Returned : r1 # r2 => r1[3] # r2[3]

C1_Witness ==
    /\ Len(issued.plan) >= 2
    /\ \E b1, b2 \in DOMAIN issued.research :
          /\ b1 # b2 /\ BlockKey(b1) = BlockKey(b2)
          /\ Len(issued.research[b1]) >= 1 /\ Len(issued.research[b2]) >= 1
    /\ \E b \in DOMAIN issued.research : Len(issued.research[b]) >= 2

\* the ids this session's generators returned lie at or below the counters
IssuedWithinCounters ==
    /\ \A i \in 1..Len(issued.plan) : SuffixNum(issued.plan[i]) <= plan_counter
    /\ \A b \in DOMAIN issued.research : \A i \in 1..Len(issued.research[b]) :
          /\ BlockKey(b) \in DOMAIN block_counters
          /\ SuffixNum(issued.research[b][i]) <= block_counters[BlockKey(b)]

\* a step of the session leaves no counter lower than it was
CountersDoNotDecrease ==
    /\ plan_counter' >= plan_counter
    /\ \A k \in DOMAIN block_counters :
          k \in DOMAIN block_counters' /\ block_counters'[k] >= block_counters[k]

\* C6: within one session (between two constructions of the store) no step
\* lowers plan_counter or a block counter, and every id the session's
\* generators returned ends in a number at or below its counter.
C6_CountersNeverDecrease ==
    /\ []IssuedWithinCounters
    /\ [][last'.op # "load" => CountersDoNotDecrease]_vars

C6_Witness ==
    /\ last.op = "add_citation"
    /\ Len(issued.plan) >= 2
    /\ \E b \in DOMAIN issued.research : Len(issued.research[b]) >= 1
    /\ citations # EmptyDict

\* the numbers a counter can take in the documents considered
Nums == 0..12

\* the records a document holds, by family
StoredPlanNums(d) == {n \in Nums : PlanId(n) \in DOMAIN d.citations.v}
StoredResearchNums(d, key) ==
    {n \in Nums : \E id \in DOMAIN d.citations.v :
        /\ StartsWith(id, "CIT-")
        /\ Len(Split(id, "-")) >= 3
        /\ IdBlockText(id) = key
        /\ IsIntLiteral(LastPiece(id)) /\ SuffixNum(id) = n}
StoredBlockKeys(d) ==
    {key \in {IdBlockText(id) : id \in {i \in DOMAIN d.citations.v :
                 StartsWith(i, "CIT-") /\ Len(Split(i, "-")) >= 3}} : IsDigitRun(key)}

HoldsRecords(d) ==
    d.kind = "object" /\ d.citations # Missing /\ d.citations.t = "dict"

\* C5 (as stated): after the store is constructed from a document, with or
\* without a counters section, plan_counter is at least the number of every
\* stored PLAN- id and each block's counter is at least the number of every
\* stored CIT- id of that block, so the next id generated is not a stored one.
C5_LoadedCountersCoverStoredIds ==
    (last.op = "load" /\ HoldsRecords(disk) /\ Usable) =>
        /\ \A n \in StoredPlanNums(disk) : plan_counter >= n
        /\ \A key \in StoredBlockKeys(disk) : \A n \in StoredResearchNums(disk, key) :
              key \in DOMAIN block_counters /\ block_counters[key] >= n
        /\ NextPlanId \notin DOMAIN citations

\* C4: a store constructed over a document with a citations table and no
\* counters section has plan_counter equal to the largest number of a stored
\* PLAN-n id and, for each block b of a stored CIT-b-n id, that block's
\* counter equal to the largest n; the next ids follow these maxima.
C4_CountersRestoredFromMaxima ==
    (last.op = "load" /\ HoldsRecords(disk) /\ disk.counters.t = "missing") =>
        /\ plan_counter = Max(StoredPlanNums(disk) \cup {0})
        /\ NextPlanId = PlanId(Max(StoredPlanNums(disk) \cup {0}) + 1)
        /\ \A key \in StoredBlockKeys(disk) :
              /\ key \in DOMAIN block_counters
              /\ block_counters[key] = Max(StoredResearchNums(disk, key))
              /\ NextResearchId("block_" \o key) =
                     "CIT-" \o key \o "-" \o Fmt02d(Max(StoredResearchNums(disk, key)) + 1)

C4_Witness ==
    /\ last.op = "load" /\ HoldsRecords(disk) /\ disk.counters.t = "missing"
    /\ DOMAIN disk.citations.v = {"PLAN-01", "PLAN-03", "CIT-2-01"}
    /\ NextPlanId = "PLAN-04"
    /\ NextResearchId("block_2") = "CIT-2-02"

\* a document that is not of the shape _save_citations writes
WrongType(f, name, t) == name \in DOMAIN f /\ f[name].t # t
Malformed(d) ==
    \/ d.kind \in {"unparseable", "nonobject"}
    \/ /\ d.kind = "object"
       /\ \/ d.citations.t \notin {"missing", "dict"}
          \/ d.counters.t \notin {"missing", "dict"}
          \/ /\ d.counters.t = "dict"
             /\ \/ WrongType(d.counters.f, "plan_counter", "int")
                \/ WrongType(d.counters.f, "block_counters", "dict")

EmptyStore ==
    /\ citations = EmptyDict
    /\ plan_counter = 0
    /\ block_counters = EmptyDict
    /\ attr_type = NormalTypes

\* C10 (as stated): a store constructed over an absent, unparseable or
\* structurally malformed document has no citations, plan_counter 0 and no
\* block counters.
C10_MalformedFileGivesEmptyStore ==
    (last.op = "load" /\ (disk.kind = "absent" \/ Malformed(disk))) => EmptyStore

\* the document holds exactly the in-memory citations and counters (a store
\* that never wrote has no document and holds nothing)
InSync ==
    \/ disk = Document(citations, cit_order, plan_counter, block_counters)
    \/ disk = Absent /\ EmptyStore

\* C7 (as stated): whenever no operation is in progress the persisted
\* document's citations and counters equal the in-memory ones, the counter
\* increments of the id generators included.
C7_EveryMutationFlushed == Usable => InSync

\* the record of the table is in the document
Persisted(d, table, citation_id) ==
    /\ d.kind = "object"
    /\ citation_id \in DOMAIN d.citations.v
    /\ citation_id \in DOMAIN table
    /\ d.citations.v[citation_id] = table[citation_id]

\* C8 (as stated): add_citation that returns True leaves the record in the
\* in-memory table and in the persisted document; one that returns False
\* leaves the table and the document as they were.
C8_AddCitationAllOrNothing ==
    [][ last'.op = "add_citation" =>
          IF last'.ret
          THEN /\ last'.citation_id \in DOMAIN citations'
               /\ Persisted(disk', citations', last'.citation_id)
          ELSE citations' = citations /\ disk' = disk
      ]_vars

\* the tool types whose extractor parses raw_answer, and the list each fills
JsonToolTypes == {"rag_naive", "rag_hybrid", "query_item", "web_search", "paper_search"}
SourceListField(tool_type) ==
    IF tool_type = "web_search" THEN "web_sources"
    ELSE IF tool_type = "paper_search" THEN "papers" ELSE "sources"
CommonFieldNames == {"citation_id", "tool_type", "query", "summary", "timestamp"}

\* C9: add_citation for rag_naive, rag_hybrid, query_item, web_search or
\* paper_search with a raw_answer that is not JSON returns True and stores a
\* record that holds the five common fields, taken from the call and the
\* trace, and an empty source list, and nothing else.
C9_MalformedAnswerStillStored ==
    (/\ last.op = "add_citation" /\ last.attrs /\ last.raw = "text"
     /\ last.tool_type \in JsonToolTypes) =>
        /\ last.ret
        /\ last.citation_id \in DOMAIN citations
        /\ LET r == citations[last.citation_id]
           IN  /\ DOMAIN r = CommonFieldNames \cup {SourceListField(last.tool_type)}
               /\ r.citation_id = last.citation_id
               /\ r.tool_type = last.tool_type
               /\ r.query = TraceOk.query
               /\ r.summary = TraceOk.summary
               /\ r.timestamp = TraceOk.timestamp
               /\ r[SourceListField(last.tool_type)] = <<>>

C9_Witness ==
    /\ last.op = "add_citation" /\ last.attrs /\ last.raw = "text"
    /\ last.tool_type = "web_search" /\ last.ret
    /\ citations["CIT-1-01"].web_sources = <<>>

\* the tasks whose call draws an id from the counter of block 5
DrawsBlock5(t) ==
    /\ call[t].op \in {"generate_research_citation_id_async", "get_next_citation_id_async"}
    /\ call[t].block_id = "block_5"
ReturnedBlock5 == {t \in Tasks : DrawsBlock5(t) /\ ret[t] # "none"}

\* C2: on a store that started fresh, under every interleaving the ids
\* returned so far to the tasks that asked for an id of "block_5" are
\* pairwise distinct and are exactly CIT-5-01 .. CIT-5-0k, k the number of
\* those tasks; with all N tasks asking and done, exactly CIT-5-01 .. CIT-5-0N.
C2_ConcurrentIdsDistinctAndGapless ==
    /\ {ret[t] : t \in ReturnedBlock5} =
           {ResearchId(5, n) : n \in 1..Cardinality(ReturnedBlock5)}
    /\ \A t, u \in ReturnedBlock5 : t # u => ret[t] # ret[u]

C2_Witness ==
    /\ \A t \in Tasks :
          /\ pc[t] = "done"
          /\ call[t] = [op |-> "generate_research_citation_id_async", block_id |-> "block_5"]
    /\ {ret[t] : t \in Tasks} = {ResearchId(5, n) : n \in 1..NumTasks}
    /\ ret[1] # "CIT-5-01"

\* the tasks inside a lock-protected section
InSection == {t \in Tasks : pc[t] \in {"body", "release"}}

\* C3: at most one task is inside a section protected by the lock, whichever
\* of the four async entry points the tasks called, and a task inside holds
\* the lock.
C3_MutualExclusion ==
    /\ Cardinality(InSection) <= 1
    /\ InSection # {} => locked

C3_Witness ==
    /\ \E t \in Tasks : pc[t] = "body" /\ call[t].op = "add_citation_async"
    /\ \E t \in Tasks : pc[t] = "done" /\ call[t].op = "generate_plan_citation_id_async"
    /\ \E t \in Tasks : pc[t] = "acquire"

\* the store a constructor builds over the document equals the store in memory
LoadsBackAsMemory ==
    LET o == _load_citations(disk)
    IN  /\ o.types = NormalTypes
        /\ o.citations = citations
        /\ o.order = cit_order
        /\ o.plan_counter = plan_counter
        /\ o.block_counters = block_counters

\* C11: when add_citation has just written the document (its save
\* succeeded), a store constructed over that document has the same citation
\* table and the same plan_counter and block_counters as the store that
\* wrote it; and every construction over a written document takes the table
\* and the counters the document holds, so the next ids continue from them.
C11_SaveLoadRoundTrip ==
    /\ []((last.op = "add_citation" /\ last.ret /\ last.io = "ok"
           /\ Serialisable(citations)) => LoadsBackAsMemory)
    /\ [][(last'.op = "load" /\ disk.kind = "object") =>
            /\ citations' = disk.citations.v
            /\ plan_counter' = disk.counters.f.plan_counter.v
            /\ block_counters' = disk.counters.f.block_counters.v
            /\ NextPlanId' = PlanId(disk.counters.f.plan_counter.v + 1)
         ]_vars

C11_Witness ==
    /\ last.op = "load"
    /\ DOMAIN citations = {"PLAN-01", "CIT-1-01"}
    /\ plan_counter = 1
    /\ block_counters = [k \in {"1"} |-> 2]
    /\ disk = Document(citations, cit_order, plan_counter, block_counters)



\* the papers a stored paper_search record lists
PapersOf(id) ==
    IF Lower(Get(citations[id], "tool_type", "")) = "paper_search"
    THEN Get(citations[id], "papers", <<>>) ELSE <<>>

NormTitle(paper) == Strip(Lower(paper.title))
FirstAuthor(paper) ==
    IF paper.authors_list = <<>> THEN "" ELSE Strip(Lower(paper.authors_list[1]))
SamePaper(p, q) == NormTitle(p) = NormTitle(q) /\ FirstAuthor(p) = FirstAuthor(q)

\* whether id c comes before id a in the sorted ids
Before(sorted, c, a) ==
    \E k, l \in 1..Len(sorted) : k < l /\ sorted[k] = c /\ sorted[l] = a

\* the papers the walk meets before the i-th paper of citation a
EarlierPapers(sorted, a, i) ==
    {<<c, j>> \in (DOMAIN citations) \X (1..5) :
        /\ j <= Len(PapersOf(c))
        /\ Before(sorted, c, a) \/ (c = a /\ j < i)}

\* two different paper_search citations whose first papers are the same
\* titled paper
ShareFirstPaper(a, b) ==
    /\ a # b
    /\ PapersOf(a) # <<>> /\ PapersOf(b) # <<>>
    /\ SamePaper(PapersOf(a)[1], PapersOf(b)[1])
    /\ NormTitle(PapersOf(a)[1]) # ""

NonPaper(id) == Lower(Get(citations[id], "tool_type", "")) # "paper_search"

\* C13: in the map built by build_ref_number_map, two stored citations with
\* different ids whose tool type is not paper_search have different
\* reference numbers, whatever their content.
C13_NonPaperNeverDeduplicated ==
    last.op = "build_ref_number_map" =>
        \A a, b \in DOMAIN citations :
            (a # b /\ NonPaper(a) /\ NonPaper(b))
                => /\ a \in DOMAIN last.ret /\ b \in DOMAIN last.ret
                   /\ last.ret[a] # last.ret[b]

\* two web_search records that are identical apart from the id
C13_Witness ==
    /\ last.op = "build_ref_number_map"
    /\ {"CIT-2-01", "CIT-10-01", "NOTE-1"} \subseteq DOMAIN citations
    /\ citations["CIT-2-01"].tool_type = "web_search"
    /\ [citations["CIT-2-01"] EXCEPT !.citation_id = "CIT-10-01"] = citations["CIT-10-01"]
    /\ citations["NOTE-1"].tool_type = "run_code"
    /\ last.ret["CIT-2-01"] = 1 /\ last.ret["CIT-10-01"] = 2 /\ last.ret["NOTE-1"] = 3

\* the entries of the map and their dedup keys: a citation id stands for the
\* citation's first paper, or for the citation when it lists no paper; a
\* synthetic id stands for one paper
EntriesOf(a) ==
    IF PapersOf(a) = <<>>
    THEN {[id |-> a, key |-> _get_citation_dedup_key(citations[a], NoPaper)]}
    ELSE {[id |-> a, key |-> _get_citation_dedup_key(citations[a], PapersOf(a)[1])]}
         \cup {[id |-> SyntheticId(a, i),
                key |-> _get_citation_dedup_key(citations[a], PapersOf(a)[i])] :
                  i \in 1..Len(PapersOf(a))}

Entries == UNION {EntriesOf(a) : a \in DOMAIN citations}

\* C14: the map build_ref_number_map returns holds exactly the entries of the
\* table, and two entries have the same reference number if and only if
\* their dedup keys are equal.
C14_SameNumberIffSameKey ==
    last.op = "build_ref_number_map" =>
        /\ DOMAIN last.ret = {e.id : e \in Entries}
        /\ \A e1, e2 \in Entries :
               (last.ret[e1.id] = last.ret[e2.id]) <=> (e1.key = e2.key)

C14_Witness ==
    /\ last.op = "build_ref_number_map"
    /\ DOMAIN citations = RefIds
    /\ \E e1, e2 \in Entries : e1.id = "CIT-2-01" /\ e2.id = "CIT-10-01" /\ e1.key = e2.key
    /\ \E e1, e2 \in Entries : e1.id = "PLAN-01" /\ e2.id = "CIT-10-01-2" /\ e1.key = e2.key
    /\ last.ret = [e \in {"PLAN-01", "PLAN-01-1", "CIT-2-01", "CIT-2-01-1", "CIT-10-01",
                          "CIT-10-01-1", "CIT-10-01-2", "NOTE-1"} |->
                      IF e \in {"PLAN-01", "PLAN-01-1", "CIT-10-01-2"} THEN 1
                      ELSE IF e = "NOTE-1" THEN 3 ELSE 2]

\* the ids of the spec's two formats over a few numbers, by what they are
\* made from: <<0, 0, n>> for PLAN-<n>, <<1, b, n>> for CIT-<b>-<n>
OrderNums == {1, 2, 10, 20, 100}
ShapeKeys == {<<0, 0, n>> : n \in OrderNums} \cup {<<1, b, n>> : b, n \in OrderNums}
IdOf(k) == IF k[1] = 0 THEN PlanId(k[3]) ELSE ResearchId(k[2], k[3])
Shaped(id) == \E k \in ShapeKeys : IdOf(k) = id

\* a comes before b in citation-id sort order: PLAN before CIT, PLAN by
\* number, CIT by (block number, sequence number), ids of neither format last
ComesBefore(a, b) ==
    \E ka \in ShapeKeys :
        /\ IdOf(ka) = a
        /\ ~Shaped(b) \/ \E kb \in ShapeKeys : IdOf(kb) = b /\ TupleLess(ka, kb)

\* the dedup key of the entry stored under the citation id
FirstKey(a) == (CHOOSE e \in EntriesOf(a) : e.id = a).key

\* a's entry repeats the key of an entry of a citation that comes before it
DuplicateOfEarlier(a) ==
    \E c \in DOMAIN citations :
        ComesBefore(c, a) /\ \E e \in EntriesOf(c) : e.key = FirstKey(a)

\* C15: build_ref_number_map numbers the stored citations in citation-id
\* sort order: of two stored citations that are not duplicates of an earlier
\* one, the one that sorts first (PLAN before CIT, PLAN by numeric suffix,
\* CIT by (block, sequence) compared as numbers, unparseable ids last) has
\* the smaller reference number.
C15_NumberedInSortOrder ==
    last.op = "build_ref_number_map" =>
        \A a, b \in DOMAIN citations :
            (ComesBefore(a, b) /\ ~DuplicateOfEarlier(a) /\ ~DuplicateOfEarlier(b))
                => last.ret[a] < last.ret[b]

C15_Witness ==
    /\ last.op = "build_ref_number_map"
    /\ \A id \in DOMAIN citations : ~DuplicateOfEarlier(id)
    /\ ComesBefore("PLAN-20", "PLAN-100") /\ ComesBefore("CIT-2-20", "CIT-2-100")
    /\ ComesBefore("CIT-2-100", "CIT-10-01") /\ ComesBefore("CIT-10-01", "NOTE-1")
    /\ ~ComesBefore("NOTE-1", "PLAN-20")
    /\ last.ret = [e \in {"PLAN-20", "PLAN-100", "CIT-2-20", "CIT-2-100", "CIT-10-01",
                          "NOTE-1"} |->
                      CASE e = "PLAN-20" -> 1 [] e = "PLAN-100" -> 2 [] e = "CIT-2-20" -> 3
                        [] e = "CIT-2-100" -> 4 [] e = "CIT-10-01" -> 5 [] OTHER -> 6]

RefNumberOps == {"build_ref_number_map", "get_ref_number", "get_ref_number_map"}

\* C17: build_ref_number_map, get_ref_number and get_ref_number_map leave the
\* citation table (its records and their order), plan_counter,
\* block_counters and the persisted document as they were.
C17_RefNumbersLeaveStoreAlone ==
    [][last'.op \in RefNumberOps
          => UNCHANGED <<citations, cit_order, plan_counter, block_counters, disk>>]_vars

\* a get_ref_number that built the map over a table added out of sort order
C17_Witness ==
    /\ last.op = "get_ref_number"
    /\ last.built
    /\ cit_order = <<"CIT-2-01", "CIT-1-01", "PLAN-01">>
    /\ ref_number_map # EmptyDict
    /\ disk = Document(citations, cit_order, plan_counter, block_counters)

\* the stored ids a non-empty cached map does not hold
Uncached ==
    IF ref_number_map = EmptyDict THEN {}
    ELSE DOMAIN citations \ DOMAIN ref_number_map

\* C18: get_ref_number and get_ref_number_map build the map only when the
\* cache is empty and otherwise serve the cached map; add_citation leaves the
\* cached map as it is; a citation added after a build of a non-empty map is
\* missing from the cache until build_ref_number_map is called, and
\* get_ref_number returns 0 for it.
C18_CacheNotInvalidatedByWrites ==
    /\ [][last'.op \in {"get_ref_number", "get_ref_number_map"}
             => /\ last'.built = (ref_number_map = EmptyDict)
                /\ ref_number_map' = IF ref_number_map = EmptyDict
                                     THEN RefNumberMap(citations, cit_order)
                                     ELSE ref_number_map]_vars
    /\ [][last'.op = "get_ref_number_map" => last'.ret = ref_number_map']_vars
    /\ [][last'.op = "add_citation" => ref_number_map' = ref_number_map]_vars
    /\ [][(last'.op = "add_citation" /\ last'.ret /\ ref_number_map # EmptyDict
             /\ last'.citation_id \notin DOMAIN citations)
             => last'.citation_id \in Uncached']_vars
    /\ [][last'.op # "build_ref_number_map" => Uncached \subseteq Uncached']_vars
    /\ []((last.op = "get_ref_number" /\ last.citation_id \in Uncached) => last.ret = 0)

\* a citation added after a build of a non-empty map, asked for
C18_Witness ==
    /\ last.op = "get_ref_number"
    /\ ~last.built
    /\ last.citation_id = "CIT-2-01"
    /\ Uncached = {"CIT-2-01"}
    /\ DOMAIN citations = CacheIds
    /\ last.ret = 0

\* the ids the marker pieces of a text name, in text order
RECURSIVE NamedIn(_)
NamedIn(ps) ==
    IF ps = <<>> THEN <<>>
    ELSE LET ids == {id \in {TextIdSeq[k] : k \in 1..Len(TextIdSeq)} :
                        Pieces[Head(ps)] = "[[" \o id \o "]]"}
         IN  (IF ids = {} THEN <<>> ELSE <<CHOOSE id \in ids : TRUE>>) \o NamedIn(Tail(ps))

\* C19: validate_citation_references puts every id found in the text, once
\* per occurrence and in text order, in valid_citations when it is stored and
\* in invalid_citations otherwise; total_found is the sum of the two lengths;
\* is_valid holds exactly when invalid_citations is empty; the store and the
\* document are left as they were.
C19_ValidatePartitionsFoundIds ==
    /\ [](last.op = "validate_citation_references" =>
            LET named == NamedIn(last.pieces)
            IN  /\ last.ret.valid_citations = SelectSeq(named, LAMBDA id : id \in DOMAIN citations)
                /\ last.ret.invalid_citations =
                       SelectSeq(named, LAMBDA id : id \notin DOMAIN citations)
                /\ last.ret.total_found =
                       Len(last.ret.valid_citations) + Len(last.ret.invalid_citations)
                /\ last.ret.is_valid = (last.ret.invalid_citations = <<>>))
    /\ [][last'.op = "validate_citation_references" => UNCHANGED <<store, disk>>]_vars

\* the store {CIT-1-01} and the text "[[CIT-1-01]] and [[CIT-9-99]]"
C19_Witness ==
    /\ last.op = "validate_citation_references"
    /\ DOMAIN citations = {"CIT-1-01"}
    /\ last.text = "[[CIT-1-01]] and [[CIT-9-99]]"
    /\ last.ret = [valid_citations |-> <<"CIT-1-01">>, invalid_citations |-> <<"CIT-9-99">>,
                   is_valid |-> FALSE, total_found |-> 2]

\* the pieces of a text without the anchored markers (a marker piece and the
\* anchor piece after it) whose id is not stored
RECURSIVE WithoutUnknownAnchored(_)
WithoutUnknownAnchored(ps) ==
    IF ps = <<>> THEN <<>>
    ELSE IF Len(ps) >= 2 /\ NamedIn(<<ps[1]>>) # <<>> /\ Pieces[ps[2]] = "(#ref-cit-9-99)"
    THEN (IF NamedIn(<<ps[1]>>)[1] \in DOMAIN citations THEN <<ps[1], ps[2]>> ELSE <<>>)
         \o WithoutUnknownAnchored(SubSeq(ps, 3, Len(ps)))
    ELSE <<ps[1]>> \o WithoutUnknownAnchored(Tail(ps))

\* the call removes the anchored markers of the text whose id is not stored
\* and nothing else
FixRemovesUnknownAnchored ==
    (last.op = "fix_invalid_citations" /\ ~last.again)
        => last.ret = TextOf(WithoutUnknownAnchored(last.pieces))

\* no anchored marker of the returned text has an id that is not stored
NoUnknownAnchoredRemains ==
    last.op = "fix_invalid_citations" =>
        \A i \in 1..Len(last.ret) :
            AnchoredEnd(last.ret, i) # 0 => MarkerId(last.ret, i) \in DOMAIN citations

\* the call applied to its own result returns it as it is
SecondFixChangesNothing ==
    (last.op = "fix_invalid_citations" /\ last.again) => last.ret = last.text

\* C20: fix_invalid_citations removes exactly the anchored markers
\* [[ID]](#ref-...) whose ID is not stored and leaves everything else; after
\* the call every remaining anchored marker refers to a stored citation, and
\* a second application changes nothing.
C20_FixRemovesInvalidAnchored ==
    /\ FixRemovesUnknownAnchored
    /\ NoUnknownAnchoredRemains
    /\ SecondFixChangesNothing

\* the block number the text after the last "_" of block_id stands for, 0
\* when block_id is empty, has no "_" or that text is not an integer
TrailingBlockNum(block_id) ==
    LET pieces == Split(block_id, "_")
        piece == pieces[Len(pieces)]
    IN  IF block_id # "" /\ Len(pieces) > 1 /\ IsIntLiteral(piece) THEN PyInt(piece) ELSE 0

\* C21: generate_research_citation_id numbers the id with the integer after
\* the last underscore of block_id, and with 0 when there is none.
C21_BlockNumberFromTrailingInteger ==
    last.op = "generate_research_citation_id" =>
        IdBlockText(last.ret) = IntToStr(TrailingBlockNum(last.block_id))

\* C22: generate_research_citation_id returns CIT-<B>-<NN> with B a
\* non-negative integer and NN at least 1.
C22_ResearchIdWellFormed ==
    last.op = "generate_research_citation_id" =>
        /\ StartsWith(last.ret, "CIT-")
        /\ Len(Split(last.ret, "-")) = 3
        /\ IsDigitRun(IdBlockText(last.ret))
        /\ IsDigitRun(LastPiece(last.ret)) /\ SuffixNum(last.ret) >= 1

\* the call for block_id adds one to the counter kept under key and leaves
\* every other counter as it was
OnlyBlockCounterStepped(key) ==
    /\ block_counters' = Put(block_counters, key, Get(block_counters, key, 0) + 1)
    /\ UNCHANGED <<plan_counter, citations, cit_order, ref_number_map>>

\* the same, for the counter of the block the returned id names
SteppedCounterOfReturnedBlock ==
    [][last'.op = "generate_research_citation_id"
          => OnlyBlockCounterStepped(IdBlockText(last'.ret))]_vars

\* C23: generate_plan_citation_id changes only plan_counter;
\* generate_research_citation_id for block b changes only the counter of
\* block b; the other counters, the citation table and the cached
\* reference-number map are left unchanged.
C23_CounterFamiliesIndependent ==
    [][/\ last'.op = "generate_plan_citation_id"
          => /\ plan_counter' = plan_counter + 1
             /\ UNCHANGED <<block_counters, citations, cit_order, ref_number_map>>
       /\ last'.op = "generate_research_citation_id"
          => OnlyBlockCounterStepped(IntToStr(TrailingBlockNum(last'.block_id)))]_vars

\* C24: a stored record changes only through a successful add_citation with
\* the same citation_id, which replaces it (the id stays in the table once);
\* no other operation alters or removes a stored record, so
\* citation_exists(id), once true, stays true, and it reports the table.
C24_RecordsChangeOnlyByAddCitation ==
    [][/\ \A id \in DOMAIN citations :
            /\ citation_exists(id)'
            /\ Cardinality({k \in 1..Len(cit_order') : cit_order'[k] = id}) = 1
            /\ citations'[id] # citations[id]
               => /\ last'.op = "add_citation"
                  /\ last'.citation_id = id
                  /\ last'.ret
       /\ last'.op = "citation_exists"
          => last'.ret = (last'.citation_id \in DOMAIN citations)]_vars

\* PLAN-01 was stored as a paper_search record, numbered, and replaced by a
\* web_search record; an operation other than add_citation has run since
C24_Witness ==
    /\ "PLAN-01-1" \in DOMAIN ref_number_map
    /\ "PLAN-01" \in DOMAIN citations
    /\ citations["PLAN-01"].tool_type = "web_search"
    /\ "CIT-1-01" \in DOMAIN citations
    /\ last.op = "fix_invalid_citations"

\* the papers of the table: citation id and position
PaperSlots ==
    {<<a, i>> \in (DOMAIN citations) \X (1..5) : i <= Len(PapersOf(a))}

\* an untitled paper does not share its number with a paper of another
\* citation
UntitledApartAcrossCitations ==
    last.op = "build_ref_number_map" =>
        \A s, t \in PaperSlots :
            (s[1] # t[1] /\ NormTitle(PapersOf(s[1])[s[2]]) = "")
                => last.ret[SyntheticId(s[1], s[2])] # last.ret[SyntheticId(t[1], t[2])]

\* C25: a paper whose title is empty is never deduplicated: in the map
\* built by build_ref_number_map it does not share its reference number
\* with any other paper, including another untitled paper of the same
\* paper_search citation.
C25_UntitledPaperNeverDeduplicated ==
    last.op = "build_ref_number_map" =>
        \A s, t \in PaperSlots :
            (s # t /\ NormTitle(PapersOf(s[1])[s[2]]) = "")
                => last.ret[SyntheticId(s[1], s[2])] # last.ret[SyntheticId(t[1], t[2])]

\* the record the call c stores
RecordOf(c) == ExtractCitation(c.citation_id, c.tool_type, c.tool_trace, NotJson)

\* every task that was created has returned
AllReturned == \A t \in Tasks : pc[t] \in {"idle", "done"}

DiskTable == IF disk = Absent THEN EmptyDict ELSE disk.citations.v

\* once all calls have returned the file holds the table of the memory and
\* a record for every call that returned True
WritersLeaveFileAsMemory ==
    AllReturned =>
        /\ DiskTable = citations
        /\ \A t \in Tasks :
              (pc[t] = "done" /\ ret[t] = "True") => call[t].citation_id \in DOMAIN DiskTable

\* the table changes only in the section of a call that returns True, which
\* stores that call's record; the sections run in the order the lock was
\* acquired, so the record left under an id is that of the last acquirer
LastAcquirerWins ==
    [][citations' # citations
          => \E t \in Tasks :
                /\ pc[t] = "body" /\ pc'[t] = "release" /\ locked
                /\ ret'[t] = "True"
                /\ citations' = Put(citations, call[t].citation_id, RecordOf(call[t]))]_vars

HolderIsRunning ==
    /\ \A t \in Tasks : pc[t] \in {"body", "release"} => running = t
    /\ locked => running \in InSection
    /\ \A t \in Tasks : pc[t] # "waiting"

\* the cached map changes only to a map with an entry for every stored
\* citation, and the table changes only inside the lock
MapReplacedWhole ==
    [][/\ ref_number_map' # ref_number_map
          => /\ DOMAIN citations \subseteq DOMAIN ref_number_map'
             /\ \E t \in Tasks : pc[t] = "sync" /\ pc'[t] = "done"
       /\ citations' # citations => locked /\ locked']_vars

\* a get_ref_number returns 0 only for an id without entry in the cached
\* map; when it has built the map itself, only for an id that is not stored
ReaderSawWholeMap ==
    [][\A t \in Tasks :
          (pc[t] = "sync" /\ pc'[t] = "done" /\ call[t].op = "get_ref_number"
           /\ ret'[t] = 0)
              => /\ call[t].citation_id \notin DOMAIN ref_number_map'
                 /\ ref_number_map = EmptyDict => ~citation_exists(call[t].citation_id)]_vars

\* C27: the only suspension point of a store operation is the lock
\* acquisition: no task is suspended while it holds the lock or in the
\* middle of a synchronous operation; the cached reference-number map is
\* replaced in one step and a concurrent get_ref_number never sees a
\* partially built map.
C27_NoSuspensionInsideOperation ==
    []HolderIsRunning /\ MapReplacedWhole /\ ReaderSawWholeMap

\* a task is inside the lock after another task's get_ref_number built the
\* map of the table of that moment
C27_Witness ==
    /\ \E t \in Tasks : pc[t] = "body" /\ call[t].citation_id = "CIT-5-01" /\ running = t
    /\ \E t \in Tasks : pc[t] = "done" /\ call[t].op = "get_ref_number" /\ ret[t] = 1
    /\ ref_number_map = [id \in {"PLAN-01"} |-> 1]

\* the call of task t has returned False
ReturnedFalse(t) == pc[t] = "done" /\ ret[t] = "False"

\* C28: the lock protocol is deadlock-free: under fair scheduling every call
\* of an async entry point eventually acquires the lock, completes and
\* releases it, also an add_citation_async whose add_citation returns
\* False; the lock is never requested by its holder.
C28_EveryCallReturns ==
    /\ \A t \in Tasks : (pc[t] = "acquire") ~> (pc[t] = "body" /\ locked)
    /\ \A t \in Tasks : (pc[t] = "body") ~> (pc[t] = "done" /\ ~locked)
    /\ \A t \in Tasks :
          (pc[t] = "acquire" /\ call[t].op = "add_citation_async"
           /\ call[t].tool_trace = TraceNoAttrs)
              ~> ReturnedFalse(t)
    /\ [](\A t \in Tasks : pc[t] = "acquire" => ~(locked /\ running = t))

\* every task was created, two with add_citation_async of which one failed
\* and one with get_next_citation_id_async, and all have returned
C28_Witness ==
    /\ \A t \in Tasks : pc[t] = "done"
    /\ ~locked /\ waiters = <<>>
    /\ \E t \in Tasks : call[t].op = "add_citation_async" /\ ret[t] = "False"
    /\ \E t \in Tasks : call[t].op = "add_citation_async" /\ ret[t] = "True"
    /\ \E t \in Tasks : call[t].op = "get_next_citation_id_async" /\ ret[t] = "CIT-5-01"

\* the key under which the paper at position i (counted from 0) is stored
PaperEntryId(a, i) == a \o "-" \o NatToStr(i + 1)

\* C29: after build_ref_number_map the reference numbers in the map are
\* exactly 1..K, K the number of distinct dedup keys; every stored citation
\* id has an entry with a number >= 1; every paper at position i of a
\* citation has an entry under <citation_id>-<i+1>; the bare citation id
\* carries the number of its first paper; get_ref_number returns 0 only for
\* ids that have no entry.
C29_NumbersContiguousAndComplete ==
    /\ last.op = "build_ref_number_map" =>
          /\ {last.ret[x] : x \in DOMAIN last.ret}
                = 1..Cardinality({e.key : e \in Entries})
          /\ \A a \in DOMAIN citations :
                /\ a \in DOMAIN last.ret /\ last.ret[a] >= 1
                /\ \A i \in 0..(Len(PapersOf(a)) - 1) :
                      PaperEntryId(a, i) \in DOMAIN last.ret
                /\ PapersOf(a) # <<>> => last.ret[a] = last.ret[PaperEntryId(a, 0)]
    /\ last.op = "get_ref_number" =>
          /\ last.ret = 0 <=> last.citation_id \notin DOMAIN ref_number_map
          /\ last.built /\ citation_exists(last.citation_id) => last.ret >= 1

\* a build over three citations, one listing three papers of which the
\* last is also the only paper of another citation: three numbers
C29_Witness ==
    /\ last.op = "build_ref_number_map"
    /\ DOMAIN citations = {"CIT-1-01", "CIT-2-01", "PLAN-01"}
    /\ Len(PapersOf("CIT-2-01")) = 3
    /\ Len(PapersOf("CIT-1-01")) = 1
    /\ last.ret["CIT-2-01-3"] = last.ret["CIT-1-01"]
    /\ PapersOf("PLAN-01") = <<>>
    /\ {last.ret[x] : x \in DOMAIN last.ret} = 1..3

\* the table and its key order without the citation x
TableWithout(x) == [a \in DOMAIN citations \ {x} |-> citations[a]]
OrderWithout(x) == SelectSeq(cit_order, LAMBDA a : a # x)

\* citation a sorts before citation x: its sort key is the smaller one, in
\* the order of the parts (stage, block number, sequence number)
SortsBefore(a, x) ==
    LET ka == _extract_citation_sort_key(a)
        kx == _extract_citation_sort_key(x)
    IN  \E n \in 1..3 : ka[n] < kx[n] /\ \A j \in 1..(n - 1) : ka[j] = kx[j]

\* x was added by the last operation as a new citation and the cached map is
\* the one built over the table as it was before
AddedAfterBuild(x) ==
    /\ last.op = "add_citation" /\ last.ret /\ last.citation_id = x
    /\ cit_order # <<>> /\ cit_order[Len(cit_order)] = x
    /\ ref_number_map # EmptyDict
    /\ ref_number_map = RefNumberMap(TableWithout(x), OrderWithout(x))

\* the entries of the citations other than x that have the key of x's entry
EarlierWithKeyOf(x) ==
    {e \in UNION {EntriesOf(a) : a \in DOMAIN citations \ {x}} : e.key = FirstKey(x)}

\* a rebuild after a citation was added keeps every number (not true of a
\* citation that sorts before stored ones)
AnyAdditionKeepsNumbers ==
    [][\A x \in DOMAIN citations :
          (AddedAfterBuild(x) /\ last'.op = "build_ref_number_map")
              => \A id \in DOMAIN ref_number_map : ref_number_map'[id] = ref_number_map[id]]_vars

\* C30: if a citation whose sort key is greater than that of every stored
\* citation is added and the map is rebuilt, every entry of the previous map
\* keeps its reference number, and an added duplicate takes the number of
\* the earliest citation in sort order with the same dedup key.
C30_NumbersStableUnderAppending ==
    [][\A x \in DOMAIN citations :
          (/\ AddedAfterBuild(x)
           /\ \A a \in DOMAIN citations \ {x} : SortsBefore(a, x)
           /\ last'.op = "build_ref_number_map")
              => /\ \A id \in DOMAIN ref_number_map :
                       /\ id \in DOMAIN ref_number_map'
                       /\ ref_number_map'[id] = ref_number_map[id]
                 /\ \A e \in EarlierWithKeyOf(x) : ref_number_map'[x] = ref_number_map[e.id]
                 /\ EarlierWithKeyOf(x) = {}
                       => \A id \in DOMAIN ref_number_map :
                             ref_number_map'[x] > ref_number_map[id]]_vars

\* the map was built over PLAN-01 and CIT-1-01; CIT-2-01, which sorts last
\* and lists the paper of PLAN-01, was added and the map rebuilt
C30_Witness ==
    /\ last.op = "build_ref_number_map" /\ last.was = "stale"
    /\ cit_order = <<"PLAN-01", "CIT-1-01", "CIT-2-01">>
    /\ citations["CIT-1-01"].tool_type = "web_search"
    /\ last.ret["PLAN-01"] = 1 /\ last.ret["CIT-1-01"] = 2
    /\ last.ret["CIT-2-01"] = 1 /\ last.ret["CIT-2-01-1"] = 1

=============================================================================
